---- MODULE Spec2Model ----
(***************************************************************************)
(* A model of the workflow audit tools: the ingest pipeline                *)
(* (scripts/ingest_codex_jsonl.py), the simulation                         *)
(* (scripts/run_workflow_simulation.py) and the diff                       *)
(* (scripts/compare_workflows.py).                                         *)
(*                                                                         *)
(* A text is a sequence of lines.  A line is [lead, key, val]: key is      *)
(* the label the line carries, spelled as in the text with its colon       *)
(* ("TODO ID:", "Todo ID:", the diff fence, "" for a line with no label),  *)
(* lead what precedes it on the line ("" or "- ") and val what follows     *)
(* it.  Python's substring test, str.startswith and the two                *)
(* regular expressions are defined on this representation.                 *)
(***************************************************************************)
EXTENDS Integers, Sequences, FiniteSets, TLC

VARIABLES
    pc,             \* position of the running program
    input,          \* the lines of the JSONL file given to the ingest pipeline
    raw_events,     \* main: raw_events (load_events_from_jsonl's result)
    events,         \* extract_events: results / build_simulation: events
    validations,    \* extract_events: validations / build_simulation: validations
    sequence,       \* extract_events: sequence
    idx,            \* index of the loop in progress
    phase,          \* build_state_snapshots: phase
    active_todo,    \* build_state_snapshots / build_simulation: active_todo
    todo_status,    \* build_state_snapshots: todo_status
    snapshots,      \* build_state_snapshots / build_simulation: snapshots
    output,         \* the record written to the output file, Unwritten before
    todo_queue,     \* build_simulation: todo_queue
    baseline,       \* compare_workflows main: baseline (file content)
    actual,         \* compare_workflows main: actual (file content)
    consumed,       \* compare_events: actual_consumed
    missing,        \* compare_events: missing
    extra,          \* compare_events: extra
    validation_failures, \* main: validation_failures
    state_diffs,    \* main: state_diffs
    began           \* the comparisons of the diff run that have started

vars == <<pc, input, raw_events, events, validations, sequence, idx, phase,
          active_todo, todo_status, snapshots, output, todo_queue, baseline,
          actual, consumed, missing, extra, validation_failures, state_diffs,
          began>>

ingestVars == <<input, raw_events, events, validations, sequence, output>>
reconVars == <<phase, active_todo, todo_status, snapshots>>
diffVars == <<baseline, actual, consumed, missing, extra, validation_failures,
              state_diffs, began>>

\* Python's None.
None == "None"

\* No output file has been written.
Unwritten == [written |-> FALSE]

\* Longest raw log of the wide specification (Spec).
MaxRaw == 1
\* Longest raw log of the reconstructor specification (SpecRecon).
MaxEvents == 4
\* Longest raw log behind a trace file handed to the diff (SpecDiff).
MaxTrace == 2

\* Raw events in a log handed to extract_events.
MaxLog == 3
\* Longest raw log of the transition-table specification (SpecTable).
MaxStream == 3

-----------------------------------------------------------------------------
(* Texts *)

\* The opener of a fenced diff block (three backquotes followed by diff);
\* the lexer accepts no backquote in a string.
DIFF_FENCE == "~~~diff"

Ln(lead, key, val) == [lead |-> lead, key |-> key, val |-> val]

\* s.upper() for the labels of the vocabulary.
UpperKey(k) ==
    CASE k = "Todo ID:" -> "TODO ID:"
      [] k = "todo id:" -> "TODO ID:"
      [] k = "Status:" -> "STATUS:"
      [] OTHER -> k

\* s.lower() for the words a STATUS line carries.
LowerWord(w) ==
    CASE w = "SUCCESS" -> "success"
      [] w = "Success" -> "success"
      [] w = "PASS" -> "pass"
      [] OTHER -> w

\* The leading \w+ of a string of the vocabulary, "" when it starts with no
\* word character.  A label other than the diff fence starts with a word,
\* which the label itself stands for (no label's word is a status word).
FirstWord(s) ==
    CASE s \in {"success", "SUCCESS", "Success", "failed", "pass", "PASS", "fail"} -> s
      [] s \in {"", DIFF_FENCE, "(no changes)"} -> ""
      [] OTHER -> s

\* The leading todo-\d+ (matched ignoring case) of a string, None when it
\* starts with none.
IdToken(s) ==
    CASE s = "todo-001" -> "todo-001"
      [] s = "todo-002" -> "todo-002"
      [] s = "todo-001 (retry)" -> "todo-001"
      [] s = "TODO-001" -> "TODO-001"
      [] OTHER -> None

\* marker in line: the line's label is the marker, or what follows the
\* label is.
LineHas(line, marker) == line.key = marker \/ line.val = marker

\* marker in text (case-sensitive substring test).
Has(text, marker) == \E i \in 1..Len(text) : LineHas(text[i], marker)

\* text.startswith(marker).
StartsWith(text, marker) ==
    Len(text) > 0 /\ text[1].lead = "" /\ text[1].key = marker

\* What follows line i's label up to the next non-space character: the rest
\* of the line, or (the line ending there) the start of the next line.
AfterLabel(text, i) ==
    IF text[i].val # "" THEN text[i].val
    ELSE IF i < Len(text) /\ text[i + 1].lead = ""
         THEN (IF text[i + 1].key # "" THEN text[i + 1].key ELSE text[i + 1].val)
         ELSE ""

\* Lines at which TODO_ID_PATTERN matches.
TodoIdMatches(text) ==
    { i \in 1..Len(text) :
        UpperKey(text[i].key) = "TODO ID:" /\ IdToken(AfterLabel(text, i)) # None }

Least(S) == CHOOSE i \in S : \A j \in S : i <= j

\* TODO_ID_PATTERN.search(text): group(1) of the first match, None if none.
TODO_ID_PATTERN(text) ==
    IF TodoIdMatches(text) = {} THEN None
    ELSE IdToken(AfterLabel(text, Least(TodoIdMatches(text))))

\* Lines at which STATUS:\s*(\w+) matches, ignoring case.
StatusMatches(text) ==
    { i \in 1..Len(text) :
        UpperKey(text[i].key) = "STATUS:" /\ FirstWord(AfterLabel(text, i)) # "" }

\* re.search(r"STATUS:\s*(\w+)", content, re.IGNORECASE), group(1).lower(),
\* "" when there is no match.
status_token(text) ==
    IF StatusMatches(text) = {} THEN ""
    ELSE LowerWord(FirstWord(AfterLabel(text, Least(StatusMatches(text)))))

-----------------------------------------------------------------------------
(* Classifier *)

\* A classifier's None (a ClassifierResult is a non-empty tuple).
Unclassified == <<>>

\* The coder payload recognised without its CONSTRAINTS: marker: a plausible
\* slip in the first classifier.
classifier_orchestrator_payload_lax(text) ==
    IF Has(text, "OBJECTIVE:") /\ Has(text, "REQUIREMENTS:")
    THEN <<"coder_payload", <<"orchestrator", "coder">> >>
    ELSE IF Has(text, "SCOPE:") /\ Has(text, "PASS CRITERIA:") /\ Has(text, "ARTIFACT REQUESTS:")
    THEN <<"tester_payload", <<"orchestrator", "tester">> >>
    ELSE IF StartsWith(text, "ISSUE:") /\ Has(text, "DECISION OPTIONS:")
    THEN <<"stuck_payload", <<"orchestrator", "stuck">> >>
    ELSE <<>>

classifier_orchestrator_payload(text) ==
    IF Has(text, "OBJECTIVE:") /\ Has(text, "REQUIREMENTS:") /\ Has(text, "CONSTRAINTS:")
    THEN <<"coder_payload", <<"orchestrator", "coder">> >>
    ELSE IF Has(text, "SCOPE:") /\ Has(text, "PASS CRITERIA:") /\ Has(text, "ARTIFACT REQUESTS:")
    THEN <<"tester_payload", <<"orchestrator", "tester">> >>
    ELSE IF StartsWith(text, "ISSUE:") /\ Has(text, "DECISION OPTIONS:")
    THEN <<"stuck_payload", <<"orchestrator", "stuck">> >>
    ELSE Unclassified

classifier_agent_response(text) ==
    IF Has(text, "STATUS:") /\ Has(text, "DIFF:") /\ Has(text, "TESTS:")
    THEN <<"coder_response", <<"coder", "orchestrator">> >>
    ELSE IF Has(text, "STATUS:") /\ Has(text, "VIEWPORTS:") /\ Has(text, "RECOMMENDATION:")
    THEN <<"tester_response", <<"tester", "orchestrator">> >>
    ELSE IF StartsWith(text, "HUMAN DECISION:") /\ Has(text, "ACTION REQUIRED:")
    THEN <<"stuck_response", <<"stuck", "orchestrator">> >>
    ELSE Unclassified

\* The classifier list swapped: a plausible slip in CLASSIFIERS.
classify_event_swapped(text) ==
    IF classifier_agent_response(text) # Unclassified
    THEN classifier_agent_response(text)
    ELSE classifier_orchestrator_payload(text)

\* CLASSIFIERS = [classifier_orchestrator_payload, classifier_agent_response]
classify_event(text) ==
    IF classifier_orchestrator_payload(text) # Unclassified
    THEN classifier_orchestrator_payload(text)
    ELSE classifier_agent_response(text)

-----------------------------------------------------------------------------
(* Section validator *)

VALIDATION_RULES ==
    [ coder_payload |-> <<"TODO ID:", "OBJECTIVE:", "REQUIREMENTS:", "CONSTRAINTS:",
                          "OUTPUT FORMAT:", "POST-CONDITIONS:", DIFF_FENCE>>,
      coder_response |-> <<"TODO ID:", "STATUS:", "DIFF:", "TESTS:", "SUMMARY:",
                           "FOLLOW-UP:">>,
      tester_payload |-> <<"TODO ID:", "SCOPE:", "VIEWPORTS:", "ARTIFACT REQUESTS:",
                           "PASS CRITERIA:", "FAILURE HANDOFF:">>,
      tester_response |-> <<"TODO ID:", "STATUS:", "VIEWPORTS:", "STEPS:", "ISSUES:",
                            "RECOMMENDATION:">>,
      stuck_payload |-> <<"ISSUE:", "CONTEXT:", "DECISION OPTIONS:", "NEEDED BY:">>,
      stuck_response |-> <<"HUMAN DECISION:", "ACTION REQUIRED:", "FOLLOW-UP:">> ]

\* [section for section in sections if section not in text]
RECURSIVE missing_of(_, _)
missing_of(text, sections) ==
    IF sections = <<>> THEN <<>>
    ELSE (IF Has(text, Head(sections)) THEN <<>> ELSE <<Head(sections)>>)
         \o missing_of(text, Tail(sections))

\* The status test inverted: a plausible slip in require_sections.
validation_status_inverted(missing_sections) ==
    IF missing_sections = <<>> THEN "fail" ELSE "pass"

\* "pass" if not missing else "fail"
validation_status(missing_sections) ==
    IF missing_sections = <<>> THEN "pass" ELSE "fail"

\* require_sections of both the ingest pipeline and the simulation (the two
\* definitions are the same function).
require_sections(text, sections, name) ==
    [ name |-> name,
      status |-> validation_status(missing_of(text, sections)),
      missing_sections |-> missing_of(text, sections) ]

-----------------------------------------------------------------------------
(* Raw events.  A JSON object is a record whose domain is the keys present; *)
(* a JSON string is [t |-> "str", s |-> ...], a JSON number                 *)
(* [t |-> "num", v |-> ...], a nested object [t |-> "dict", ...].  A        *)
(* content value is the list ensure_list makes of it: a sequence of         *)
(* candidates [kind, text], kind "str" for a plain string, "text" for an    *)
(* object with type == "text" and a text field, "value" for an object with  *)
(* a string value field, "other" for anything else.                         *)

\* "\n".join(extracted).strip(): the lines of the contributing candidates.
RECURSIVE join_candidates(_)
join_candidates(cands) ==
    IF cands = <<>> THEN <<>>
    ELSE (IF Head(cands).kind \in {"str", "text", "value"} THEN Head(cands).text ELSE <<>>)
         \o join_candidates(Tail(cands))

\* A line of white space only.
IsBlank(line) == line.lead = "" /\ line.key = "" /\ line.val = ""

\* text.strip(): the text without its leading and trailing blank lines (no
\* line of the vocabulary starts or ends with white space).
strip(text) ==
    LET S == { i \in 1..Len(text) : ~ IsBlank(text[i]) }
    IN  IF S = {} THEN <<>>
        ELSE SubSeq(text, Least(S), CHOOSE i \in S : \A j \in S : j <= i)

flatten_text(event) ==
    IF "content" \in DOMAIN event THEN strip(join_candidates(event.content))
    ELSE IF "message" \in DOMAIN event /\ "content" \in DOMAIN event.message
    THEN strip(join_candidates(event.message.content))
    ELSE IF "payload" \in DOMAIN event /\ "content" \in DOMAIN event.payload
    THEN strip(join_candidates(event.payload.content))
    ELSE <<>>

\* bool(value) of a metadata value.
Truthy(v) ==
    IF v.t = "str" THEN v.s # "" ELSE DOMAIN v # {"t"}

\* event.get(k1) or event.get(k2) or ... or {}
RECURSIVE first_truthy(_, _)
first_truthy(event, keys) ==
    IF keys = <<>> THEN [t |-> "dict"]
    ELSE IF Head(keys) \in DOMAIN event /\ Truthy(event[Head(keys)])
    THEN event[Head(keys)]
    ELSE first_truthy(event, Tail(keys))

\* d.get("name") or d.get("role") or "unknown"
name_or_role(d) ==
    IF "name" \in DOMAIN d /\ d.name # "" THEN d.name
    ELSE IF "role" \in DOMAIN d /\ d.role # "" THEN d.role
    ELSE "unknown"

guess_actor(event) ==
    LET actor == first_truthy(event, <<"participant", "actor", "source">>)
        target == first_truthy(event, <<"target", "recipient">>)
        name == IF actor.t = "dict" THEN name_or_role(actor) ELSE actor.s
        target_name == IF target.t = "dict" THEN name_or_role(target) ELSE target.s
    IN  <<name, target_name>>

\* The instants current_timestamp() can return during a run.
Clock == {900}

\* parse_timestamp: instants stand for their ISO-8601 rendering; a string
\* value is [t |-> "str", valid |-> TRUE, iso |-> instant] or, when
\* fromisoformat rejects it, [t |-> "str", valid |-> FALSE].
RECURSIVE parse_timestamp_keys(_, _, _)
parse_timestamp_keys(event, keys, now) ==
    IF keys = <<>> THEN now
    ELSE IF Head(keys) \in DOMAIN event /\ event[Head(keys)].t = "num"
    THEN event[Head(keys)].v
    ELSE IF Head(keys) \in DOMAIN event /\ event[Head(keys)].t = "str"
            /\ event[Head(keys)].valid
    THEN event[Head(keys)].iso
    ELSE parse_timestamp_keys(event, Tail(keys), now)

parse_timestamp(event, now) ==
    parse_timestamp_keys(event, <<"timestamp", "created", "time">>, now)

-----------------------------------------------------------------------------
(* extract_events *)

\* payload_type.endswith("payload")
EndsWithPayload(payload_type) ==
    payload_type \in {"coder_payload", "tester_payload", "stuck_payload"}

\* The sender an event is recorded with (lines 227-230).
resolve_sender(inferred, sender_guess) ==
    IF sender_guess # "unknown" /\ sender_guess \notin {"assistant", "system"}
    THEN sender_guess ELSE inferred

\* The recipient resolved with the sender's test of the generic labels: a
\* plausible slip.
resolve_recipient_like_sender(inferred, recipient_guess) ==
    IF recipient_guess # "unknown" /\ recipient_guess \notin {"assistant", "system"}
    THEN recipient_guess ELSE inferred

\* The recipient an event is recorded with (lines 227, 231-232).
resolve_recipient(inferred, recipient_guess) ==
    IF recipient_guess # "unknown" THEN recipient_guess ELSE inferred

\* The name built from the match alone, without the fallback of line 251: a
\* plausible slip.
validation_name_no_fallback(payload_type, text) ==
    <<payload_type, TODO_ID_PATTERN(text)>>

\* The name of an event's validation: payload_type and the todo fragment,
\* kept as a pair (the code joins them with "_").
validation_name(payload_type, text) ==
    <<payload_type,
      IF TODO_ID_PATTERN(text) # None THEN TODO_ID_PATTERN(text) ELSE payload_type>>

\* The loop of extract_events counting every raw event, recorded or not: a
\* plausible slip (sequence += 1 ahead of the two continue statements).
extract_one_counts_dropped(acc, raw_event, now) ==
    LET text == flatten_text(raw_event)
        classification == classify_event(text)
    IN  IF text = <<>> \/ classification = Unclassified
        THEN [acc EXCEPT !.sequence = @ + 1]
        ELSE [ results |-> Append(acc.results,
                   [ sequence |-> acc.sequence + 1,
                     timestamp |-> parse_timestamp(raw_event, now),
                     sender |-> resolve_sender(classification[2][1], guess_actor(raw_event)[1]),
                     recipient |-> resolve_recipient(classification[2][2], guess_actor(raw_event)[2]),
                     role |-> IF EndsWithPayload(classification[1])
                              THEN "delegation" ELSE "completion",
                     payload_type |-> classification[1],
                     content |-> text ]),
               validations |->
                   Append(acc.validations,
                          require_sections(text, VALIDATION_RULES[classification[1]],
                                           validation_name(classification[1], text))),
               sequence |-> acc.sequence + 1 ]

\* One iteration of extract_events' loop.  acc is [results, validations,
\* sequence]; now is the clock reading parse_timestamp falls back to.
extract_one(acc, raw_event, now) ==
    LET text == flatten_text(raw_event)
        classification == classify_event(text)
        payload_type == classification[1]
        guess == guess_actor(raw_event)
        sections == VALIDATION_RULES[payload_type]
    IN  IF text = <<>> THEN acc
        ELSE IF classification = Unclassified THEN acc
        ELSE [ results |-> Append(acc.results,
                   [ sequence |-> acc.sequence + 1,
                     timestamp |-> parse_timestamp(raw_event, now),
                     sender |-> resolve_sender(classification[2][1], guess[1]),
                     recipient |-> resolve_recipient(classification[2][2], guess[2]),
                     role |-> IF EndsWithPayload(payload_type)
                              THEN "delegation" ELSE "completion",
                     payload_type |-> payload_type,
                     content |-> text ]),
               validations |->
                   IF sections # <<>>
                   THEN Append(acc.validations,
                               require_sections(text, sections,
                                                validation_name(payload_type, text)))
                   ELSE acc.validations,
               sequence |-> acc.sequence + 1 ]

RECURSIVE extract_from(_, _, _)
extract_from(acc, raws, now) ==
    IF raws = <<>> THEN acc
    ELSE extract_from(extract_one(acc, Head(raws), now), Tail(raws), now)

\* extract_events(events): [results, validations, sequence].
extract_events(raws, now) ==
    extract_from([results |-> <<>>, validations |-> <<>>, sequence |-> 0], raws, now)

-----------------------------------------------------------------------------
(* build_state_snapshots.  st is [phase, active_todo, todo_status,          *)
(* snapshots]; todo_status is a function whose domain is the keys the       *)
(* defaultdict holds (the code only ever assigns to it).                    *)

\* todo_status[todo_id] = status
set_status(statuses, todo_id, status) ==
    [k \in DOMAIN statuses \cup {todo_id} |->
        IF k = todo_id THEN status ELSE statuses[k]]

append_snapshot(st, note, timestamp) ==
    [st EXCEPT !.snapshots = Append(@,
        [ timestamp |-> timestamp,
          phase |-> st.phase,
          active_todo |-> st.active_todo,
          todo_statuses |-> st.todo_status,
          note |-> note ])]

recon_init ==
    [phase |-> "bootstrap", active_todo |-> None, todo_status |-> <<>>,
     snapshots |-> <<>>]

\* The bootstrap snapshot stamped with the last event's time: a plausible
\* slip (events[-1] for events[0]).
recon_bootstrap_last_timestamp(st, evts) ==
    IF evts # <<>>
    THEN append_snapshot(st, <<"Captured session metadata from raw log.">>,
                         evts[Len(evts)].timestamp)
    ELSE st

\* Lines 277-278.
recon_bootstrap(st, evts) ==
    IF evts # <<>>
    THEN append_snapshot(st, <<"Captured session metadata from raw log.">>,
                         evts[1].timestamp)
    ELSE st

\* The coder_payload branch naming the active item without recording its
\* status: a plausible slip (line 285 left out).
on_coder_payload_no_status(st, event, todo_id) ==
    append_snapshot(
        [st EXCEPT !.phase = "dispatch", !.active_todo = todo_id],
        <<"Dispatching to coder", todo_id>>, event.timestamp)

on_coder_payload(st, event, todo_id) ==
    append_snapshot(
        [st EXCEPT !.phase = "dispatch", !.active_todo = todo_id,
                   !.todo_status = set_status(@, todo_id, "in_progress")],
        <<"Dispatching to coder", todo_id>>, event.timestamp)

\* The coder_response branch escalating on the token failed only, so that
\* any other token, or none, counts as success: a plausible slip.
on_coder_response_failed_only(st, event, todo_id) ==
    IF status_token(event.content) # "failed"
    THEN append_snapshot(
            [st EXCEPT !.phase = "verifying",
                       !.todo_status = set_status(@, todo_id, "verifying")],
            <<"Awaiting tester results", todo_id>>, event.timestamp)
    ELSE append_snapshot(
            [st EXCEPT !.phase = "escalating",
                       !.todo_status = set_status(@, todo_id, "blocked")],
            <<"Coder reported failure", todo_id>>, event.timestamp)

on_coder_response(st, event, todo_id) ==
    IF status_token(event.content) = "success"
    THEN append_snapshot(
            [st EXCEPT !.phase = "verifying",
                       !.todo_status = set_status(@, todo_id, "verifying")],
            <<"Awaiting tester results", todo_id>>, event.timestamp)
    ELSE append_snapshot(
            [st EXCEPT !.phase = "escalating",
                       !.todo_status = set_status(@, todo_id, "blocked")],
            <<"Coder reported failure", todo_id>>, event.timestamp)

on_tester_payload(st, event, todo_id) ==
    append_snapshot([st EXCEPT !.phase = "verifying"],
                    <<"Tester engaged", todo_id>>, event.timestamp)

\* The pass branch leaving the phase at verifying: a plausible slip.
on_tester_response_stays(st, event, todo_id) ==
    IF status_token(event.content) = "pass"
    THEN append_snapshot(
            [st EXCEPT !.todo_status = set_status(@, todo_id, "complete")],
            <<"Tester passed", todo_id>>, event.timestamp)
    ELSE append_snapshot(
            [st EXCEPT !.todo_status = set_status(@, todo_id, "blocked"),
                       !.phase = "escalating"],
            <<"Tester failed", todo_id>>, event.timestamp)

on_tester_response(st, event, todo_id) ==
    IF status_token(event.content) = "pass"
    THEN append_snapshot(
            [st EXCEPT !.todo_status = set_status(@, todo_id, "complete"),
                       !.phase = "dispatch"],
            <<"Tester passed", todo_id>>, event.timestamp)
    ELSE append_snapshot(
            [st EXCEPT !.todo_status = set_status(@, todo_id, "blocked"),
                       !.phase = "escalating"],
            <<"Tester failed", todo_id>>, event.timestamp)

on_stuck_payload(st, event, todo_id) ==
    append_snapshot([st EXCEPT !.phase = "escalating"],
                    <<"Escalating to stuck agent", todo_id>>, event.timestamp)

\* The reset deleting the key instead of assigning pending: a plausible slip.
on_stuck_response_deletes(st, event, todo_id) ==
    append_snapshot(
        [st EXCEPT !.phase = "planning",
                   !.todo_status = [k \in DOMAIN @ \ {todo_id} |-> @[k]]],
        <<"Human guidance received", todo_id>>, event.timestamp)

on_stuck_response(st, event, todo_id) ==
    append_snapshot(
        [st EXCEPT !.phase = "planning",
                   !.todo_status = set_status(@, todo_id, "pending")],
        <<"Human guidance received", todo_id>>, event.timestamp)

\* The body of the loop of lines 280-320 for one event.
recon_step(st, event) ==
    LET todo_id == TODO_ID_PATTERN(event.content)
    IN  IF todo_id = None THEN st
        ELSE CASE event.payload_type = "coder_payload" -> on_coder_payload(st, event, todo_id)
               [] event.payload_type = "coder_response" -> on_coder_response(st, event, todo_id)
               [] event.payload_type = "tester_payload" -> on_tester_payload(st, event, todo_id)
               [] event.payload_type = "tester_response" -> on_tester_response(st, event, todo_id)
               [] event.payload_type = "stuck_payload" -> on_stuck_payload(st, event, todo_id)
               [] event.payload_type = "stuck_response" -> on_stuck_response(st, event, todo_id)
               [] OTHER -> st

RECURSIVE recon_from(_, _)
recon_from(st, evts) ==
    IF evts = <<>> THEN st ELSE recon_from(recon_step(st, Head(evts)), Tail(evts))

\* build_state_snapshots(events): the snapshots returned.
build_state_snapshots(evts) ==
    recon_from(recon_bootstrap(recon_init, evts), evts).snapshots

-----------------------------------------------------------------------------
(* The texts of the simulation (run_workflow_simulation.py), label lines    *)
(* only, and the inputs drawn from them.                                    *)

coder_payload_text(todo) ==
    << Ln("", "TODO ID:", todo), Ln("", "OBJECTIVE:", "objective"),
       Ln("", "REQUIREMENTS:", ""), Ln("", "CONSTRAINTS:", ""),
       Ln("", "OUTPUT FORMAT:", ""), Ln("", DIFF_FENCE, ""),
       Ln("", "POST-CONDITIONS:", "") >>

coder_response_text(todo, status) ==
    << Ln("", "TODO ID:", todo), Ln("", "STATUS:", status), Ln("", "DIFF:", ""),
       Ln("", DIFF_FENCE, ""), Ln("", "TESTS:", ""), Ln("", "SUMMARY:", ""),
       Ln("", "FOLLOW-UP:", "") >>

tester_payload_text(todo) ==
    << Ln("", "TODO ID:", todo), Ln("", "SCOPE:", ""), Ln("", "VIEWPORTS:", ""),
       Ln("", "ARTIFACT REQUESTS:", ""), Ln("", "PASS CRITERIA:", ""),
       Ln("", "FAILURE HANDOFF:", "") >>

tester_response_text(todo, status) ==
    << Ln("", "TODO ID:", todo), Ln("", "STATUS:", status), Ln("", "VIEWPORTS:", ""),
       Ln("", "STEPS:", ""), Ln("", "ISSUES:", ""), Ln("", "RECOMMENDATION:", "") >>

\* Lines 419-428: the identifier sits on a list item, "- Todo ID: todo-002".
stuck_payload_text(todo) ==
    << Ln("", "ISSUE:", "ModuleNotFoundError"), Ln("", "CONTEXT:", ""),
       Ln("- ", "Todo ID:", todo), Ln("", "DECISION OPTIONS:", ""),
       Ln("- ", "Option A", ""), Ln("- ", "Option B", ""), Ln("- ", "Option C", ""),
       Ln("", "NEEDED BY:", "needed_by") >>

\* Lines 458-463: the reply names no item.
stuck_response_text ==
    << Ln("", "HUMAN DECISION:", "Option A"), Ln("", "ACTION REQUIRED:", ""),
       Ln("", "FOLLOW-UP:", "") >>

\* A stuck reply that does name its item.
stuck_response_with_id(todo) ==
    << Ln("", "HUMAN DECISION:", "Option A"), Ln("", "TODO ID:", todo),
       Ln("", "ACTION REQUIRED:", ""), Ln("", "FOLLOW-UP:", "") >>

\* A coder reply whose STATUS label is followed by the diff fence: the
\* status pattern finds no word.
coder_response_no_token(todo) ==
    << Ln("", "TODO ID:", todo), Ln("", "STATUS:", ""), Ln("", DIFF_FENCE, ""),
       Ln("", "DIFF:", ""), Ln("", "TESTS:", ""), Ln("", "SUMMARY:", ""),
       Ln("", "FOLLOW-UP:", "") >>

\* A tester reply whose STATUS label is followed by a parenthesis: the
\* status pattern finds no word.
tester_response_no_token(todo) ==
    << Ln("", "TODO ID:", todo), Ln("", "STATUS:", "(no changes)"),
       Ln("", "VIEWPORTS:", ""), Ln("", "STEPS:", ""), Ln("", "ISSUES:", ""),
       Ln("", "RECOMMENDATION:", "") >>

SimulationTexts ==
    { coder_payload_text("todo-001"), coder_response_text("todo-001", "success"),
      tester_payload_text("todo-001"), tester_response_text("todo-001", "pass"),
      coder_payload_text("todo-002"), coder_response_text("todo-002", "failed"),
      stuck_payload_text("todo-002"), stuck_response_text }

\* One text of each payload kind.
KindTexts ==
    { coder_payload_text("todo-001"), coder_response_text("todo-001", "success"),
      tester_payload_text("todo-001"), tester_response_text("todo-001", "pass"),
      stuck_payload_text("todo-002"), stuck_response_text }

DropLine(text, i) == SubSeq(text, 1, i - 1) \o SubSeq(text, i + 1, Len(text))

\* Each kind's text with one line left out.
OneLineDropped == { DropLine(t, i) : <<t, i>> \in { <<u, j>> \in KindTexts \X (1..8) : j <= Len(u) } }

\* Two kinds' texts in one message.
TwoKinds == { t \o u : <<t, u>> \in { <<v, w>> \in KindTexts \X KindTexts : v # w } }

OtherTexts ==
    { << Ln("", "", "hello") >>,
      << Ln("", "TODO ID:", ""), Ln("", "", "todo-001"), Ln("", "STATUS:", ""),
         Ln("", "DIFF:", ""), Ln("", "TESTS:", "") >>,
      << Ln("", "todo id:", "TODO-001"), Ln("", "Status:", "PASS"), Ln("", "STATUS:", "fail"),
         Ln("", "VIEWPORTS:", ""), Ln("", "RECOMMENDATION:", "") >> }

WideTexts == SimulationTexts \cup OneLineDropped \cup TwoKinds \cup OtherTexts

\* A raw event carrying the text as a plain content string.
RawOf(text, at) ==
    [ content |-> << [kind |-> "str", text |-> text] >>,
      timestamp |-> [t |-> "num", v |-> at] ]

\* Raw events of the other shapes flatten_text, guess_actor and
\* parse_timestamp accept.
ShapedRaws ==
    { [ type |-> [t |-> "str", s |-> "session.start"] ],
      [ content |-> << [kind |-> "other", text |-> <<>>], [kind |-> "str", text |-> <<>>] >> ],
      [ message |-> [ content |-> << [kind |-> "text", text |-> coder_payload_text("todo-001")] >> ],
        participant |-> [t |-> "str", s |-> "assistant"],
        target |-> [t |-> "dict", name |-> "tester"],
        created |-> [t |-> "str", valid |-> TRUE, iso |-> 12] ],
      [ payload |-> [ content |-> << [kind |-> "value", text |-> coder_response_text("todo-001", "success")] >> ],
        actor |-> [t |-> "dict", role |-> "coder-7"],
        recipient |-> [t |-> "str", s |-> "unknown"],
        timestamp |-> [t |-> "str", valid |-> FALSE] ],
      [ content |-> << [kind |-> "str", text |-> coder_payload_text("todo-001")] >>,
        source |-> [t |-> "str", s |-> "planner"],
        time |-> [t |-> "num", v |-> 13] ] }

\* The lines a JSONL file can hold: a record, a blank line, a line json.loads
\* rejects.
WideLines ==
    { [kind |-> "json", event |-> r] : r \in { RawOf(t, 12) : t \in WideTexts } \cup ShapedRaws }
    \cup { [kind |-> "blank"], [kind |-> "malformed"] }

\* The raw events behind the reconstructor's inputs.
ReconRaws ==
    { RawOf(coder_payload_text("todo-001"), 12),
      RawOf(coder_response_text("todo-001", "success"), 25),
      RawOf(tester_payload_text("todo-001"), 28),
      RawOf(tester_response_text("todo-001", "pass"), 40),
      RawOf(coder_response_text("todo-002", "failed"), 60),
      RawOf(stuck_payload_text("todo-002"), 63),
      RawOf(stuck_response_text, 75),
      RawOf(stuck_response_with_id("todo-002"), 76) }

\* Sequences over S of length at most n.
SeqsUpTo(S, n) == UNION { [1..k -> S] : k \in 0..n }

-----------------------------------------------------------------------------
(* The ingest pipeline: main of ingest_codex_jsonl.py.                      *)

reconIdle ==
    /\ phase = "bootstrap" /\ active_todo = None /\ todo_status = <<>>
    /\ snapshots = <<>>

diffIdle ==
    /\ baseline = None /\ actual = None /\ consumed = <<>> /\ missing = <<>>
    /\ extra = <<>> /\ validation_failures = <<>> /\ state_diffs = <<>>
    /\ began = {}

\* load_events_from_jsonl: one line of the file.
LoadLine ==
    /\ pc = "load" /\ idx <= Len(input)
    /\ raw_events' = IF input[idx].kind = "json"
                     THEN Append(raw_events, input[idx].event) ELSE raw_events
    /\ idx' = idx + 1
    /\ UNCHANGED <<pc, input, events, validations, sequence, output, todo_queue>>
    /\ UNCHANGED reconVars /\ UNCHANGED diffVars

\* Lines 346-348: the file is read; no raw event is fatal.
LoadReturn ==
    /\ pc = "load" /\ idx > Len(input)
    /\ pc' = IF raw_events = <<>> THEN "exit_no_events" ELSE "extract"
    /\ idx' = 1
    /\ UNCHANGED <<input, raw_events, events, validations, sequence, output, todo_queue>>
    /\ UNCHANGED reconVars /\ UNCHANGED diffVars

\* extract_events: one iteration of its loop.
ExtractEvent ==
    /\ pc = "extract" /\ idx <= Len(raw_events)
    /\ \E now \in Clock :
         LET acc == extract_one([results |-> events, validations |-> validations,
                                 sequence |-> sequence], raw_events[idx], now)
         IN  /\ events' = acc.results
             /\ validations' = acc.validations
             /\ sequence' = acc.sequence
    /\ idx' = idx + 1
    /\ UNCHANGED <<pc, input, raw_events, output, todo_queue>>
    /\ UNCHANGED reconVars /\ UNCHANGED diffVars

\* The return of extract_events without the test of lines 351-352: a
\* plausible slip.
ExtractReturn_unchecked ==
    /\ pc = "extract" /\ idx > Len(raw_events)
    /\ pc' = "bootstrap"
    /\ idx' = 1
    /\ UNCHANGED <<input, raw_events, events, validations, sequence, output, todo_queue>>
    /\ UNCHANGED reconVars /\ UNCHANGED diffVars

\* Lines 350-352: extract_events returns; no event is fatal.
ExtractReturn ==
    /\ pc = "extract" /\ idx > Len(raw_events)
    /\ pc' = IF events = <<>> THEN "exit_no_payloads" ELSE "bootstrap"
    /\ idx' = 1
    /\ UNCHANGED <<input, raw_events, events, validations, sequence, output, todo_queue>>
    /\ UNCHANGED reconVars /\ UNCHANGED diffVars

ReconState ==
    [phase |-> phase, active_todo |-> active_todo, todo_status |-> todo_status,
     snapshots |-> snapshots]

SetRecon(st) ==
    /\ phase' = st.phase
    /\ active_todo' = st.active_todo
    /\ todo_status' = st.todo_status
    /\ snapshots' = st.snapshots

\* build_state_snapshots, lines 261-278.
Bootstrap ==
    /\ pc = "bootstrap"
    /\ SetRecon(recon_bootstrap(recon_init, events))
    /\ pc' = "build" /\ idx' = 1
    /\ UNCHANGED ingestVars /\ UNCHANGED todo_queue /\ UNCHANGED diffVars

\* The branches of the loop without their test of todo_id: a plausible slip.
AtEvent_unidentified(payload_type) ==
    /\ pc = "build" /\ idx <= Len(events)
    /\ events[idx].payload_type = payload_type

\* The loop of lines 280-320 stands at an event of this kind that names an
\* item.
AtEvent(payload_type) ==
    /\ pc = "build" /\ idx <= Len(events)
    /\ events[idx].payload_type = payload_type
    /\ TODO_ID_PATTERN(events[idx].content) # None

BuildFrame ==
    /\ idx' = idx + 1
    /\ UNCHANGED pc /\ UNCHANGED ingestVars /\ UNCHANGED todo_queue
    /\ UNCHANGED diffVars

OnCoderPayload ==
    /\ AtEvent("coder_payload")
    /\ SetRecon(on_coder_payload(ReconState, events[idx], TODO_ID_PATTERN(events[idx].content)))
    /\ BuildFrame

OnCoderResponse ==
    /\ AtEvent("coder_response")
    /\ SetRecon(on_coder_response(ReconState, events[idx], TODO_ID_PATTERN(events[idx].content)))
    /\ BuildFrame

OnTesterPayload ==
    /\ AtEvent("tester_payload")
    /\ SetRecon(on_tester_payload(ReconState, events[idx], TODO_ID_PATTERN(events[idx].content)))
    /\ BuildFrame

OnTesterResponse ==
    /\ AtEvent("tester_response")
    /\ SetRecon(on_tester_response(ReconState, events[idx], TODO_ID_PATTERN(events[idx].content)))
    /\ BuildFrame

OnStuckPayload ==
    /\ AtEvent("stuck_payload")
    /\ SetRecon(on_stuck_payload(ReconState, events[idx], TODO_ID_PATTERN(events[idx].content)))
    /\ BuildFrame

OnStuckResponse ==
    /\ AtEvent("stuck_response")
    /\ SetRecon(on_stuck_response(ReconState, events[idx], TODO_ID_PATTERN(events[idx].content)))
    /\ BuildFrame

\* An event that names no item matches no branch of the loop.
OnNoTodoId ==
    /\ pc = "build" /\ idx <= Len(events)
    /\ TODO_ID_PATTERN(events[idx].content) = None
    /\ UNCHANGED reconVars
    /\ BuildFrame

\* Line 322.
BuildReturn ==
    /\ pc = "build" /\ idx > Len(events)
    /\ pc' = "returned"
    /\ UNCHANGED idx /\ UNCHANGED ingestVars /\ UNCHANGED todo_queue
    /\ UNCHANGED reconVars /\ UNCHANGED diffVars

\* The record main writes (session_id and generated_at left out).
workflow_record(evts, snaps, vals) ==
    [events |-> evts, state_snapshots |-> snaps, validations |-> vals]

\* Lines 355-368.
WriteOutput ==
    /\ pc = "returned"
    /\ output' = workflow_record(events, snapshots, validations)
    /\ pc' = "done"
    /\ UNCHANGED <<input, raw_events, events, validations, sequence, idx, todo_queue>>
    /\ UNCHANGED reconVars /\ UNCHANGED diffVars

Build ==
    \/ Bootstrap \/ OnCoderPayload \/ OnCoderResponse \/ OnTesterPayload
    \/ OnTesterResponse \/ OnStuckPayload \/ OnStuckResponse \/ OnNoTodoId
    \/ BuildReturn

Ingest == LoadLine \/ LoadReturn \/ ExtractEvent \/ ExtractReturn \/ Build \/ WriteOutput

InitIngest ==
    /\ pc = "load" /\ idx = 1
    /\ input \in SeqsUpTo(WideLines, MaxRaw)
    /\ raw_events = <<>> /\ events = <<>> /\ validations = <<>> /\ sequence = 0
    /\ output = Unwritten /\ todo_queue = <<>>
    /\ reconIdle /\ diffIdle

\* build_state_snapshots called on the events extract_events returns for a
\* raw log.
InitRecon ==
    /\ pc = "bootstrap" /\ idx = 1
    /\ input = <<>>
    /\ raw_events \in SeqsUpTo(ReconRaws, MaxEvents)
    /\ \E now \in Clock :
         LET acc == extract_events(raw_events, now)
         IN  events = acc.results /\ validations = acc.validations
             /\ sequence = acc.sequence
    /\ output = Unwritten /\ todo_queue = <<>>
    /\ reconIdle /\ diffIdle

SpecRecon == InitRecon /\ [][Build]_vars

\* The raw events behind the inputs that walk the transition table: the
\* reconstructor's, and replies with a failing token or none.
TableRaws ==
    ReconRaws \cup
    { RawOf(coder_response_no_token("todo-001"), 26),
      RawOf(tester_response_text("todo-002", "fail"), 41),
      RawOf(tester_response_no_token("todo-001"), 42) }

\* build_state_snapshots called on the events of a short raw log.
InitTable ==
    /\ pc = "bootstrap" /\ idx = 1
    /\ input = <<>>
    /\ raw_events \in SeqsUpTo(TableRaws, MaxStream)
    /\ \E now \in Clock :
         LET acc == extract_events(raw_events, now)
         IN  events = acc.results /\ validations = acc.validations
             /\ sequence = acc.sequence
    /\ output = Unwritten /\ todo_queue = <<>>
    /\ reconIdle /\ diffIdle

SpecTable == InitTable /\ [][Build]_vars

\* The raw events behind extract_events' inputs: recorded ones, with and
\* without an item identifier and with routing metadata, and ones dropped
\* for having no text, only white space, or no classification.
ExtractRaws ==
    { RawOf(coder_payload_text("todo-001"), 12),
      RawOf(<< Ln("", "", "hello") >>, 13),
      [ type |-> [t |-> "str", s |-> "session.start"] ],
      RawOf(<< Ln("", "", "") >>, 14),
      RawOf(stuck_response_text, 75),
      RawOf(stuck_payload_text("todo-002"), 63),
      [ payload |-> [ content |-> << [kind |-> "value", text |-> coder_response_text("todo-001", "success")] >> ],
        actor |-> [t |-> "dict", role |-> "coder-7"],
        recipient |-> [t |-> "str", s |-> "unknown"],
        timestamp |-> [t |-> "str", valid |-> FALSE] ],
      [ content |-> << [kind |-> "str", text |-> coder_response_text("todo-002", "failed")] >>,
        actor |-> [t |-> "str", s |-> "system"],
        recipient |-> [t |-> "str", s |-> "assistant"],
        timestamp |-> [t |-> "num", v |-> 60] ],
      [ message |-> [ content |-> << [kind |-> "text", text |-> tester_payload_text("todo-001")] >> ],
        participant |-> [t |-> "str", s |-> "assistant"],
        target |-> [t |-> "dict", name |-> "tester-2"],
        created |-> [t |-> "str", valid |-> TRUE, iso |-> 28] ] }

\* extract_events called on a raw log main has loaded (never an empty one).
InitExtract ==
    /\ pc = "extract" /\ idx = 1
    /\ input = <<>>
    /\ raw_events \in SeqsUpTo(ExtractRaws, MaxLog) \ { <<>> }
    /\ events = <<>> /\ validations = <<>> /\ sequence = 0
    /\ output = Unwritten /\ todo_queue = <<>>
    /\ reconIdle /\ diffIdle

Extract == ExtractEvent \/ ExtractReturn

SpecExtract == InitExtract /\ [][Extract]_vars

-----------------------------------------------------------------------------
(* The simulation: build_simulation of run_workflow_simulation.py, a        *)
(* straight-line program.  Each step is one record_snapshot call with the   *)
(* assignments before it, or one exchange: a require_sections call and the  *)
(* events.append after it.  Instants are the offsets handed to ts().        *)

SnapshotStep(sets, active, offset, ph, note) ==
    [op |-> "snapshot", sets |-> sets, active |-> active, offset |-> offset,
     phase |-> ph, note |-> note]

ExchangeStep(text, sections, name, offset, sender, recipient, role, payload_type) ==
    [op |-> "exchange", text |-> text, sections |-> sections, name |-> name,
     offset |-> offset, sender |-> sender, recipient |-> recipient, role |-> role,
     payload_type |-> payload_type]

\* active_todo is left as it is.
Keep == "keep"

SimulationProgram ==
    << SnapshotStep(<<>>, Keep, 0, "bootstrap", "Captured context"),
       SnapshotStep(<< <<"todo-001", "pending">>, <<"todo-002", "pending">> >>, Keep, 5,
                    "planning", "Initialized todo queue"),
       SnapshotStep(<< <<"todo-001", "in_progress">> >>, "todo-001", 10, "dispatch",
                    "Dispatching todo-001"),
       ExchangeStep(coder_payload_text("todo-001"),
                    <<"TODO ID:", "OBJECTIVE:", "REQUIREMENTS:", "CONSTRAINTS:",
                      "OUTPUT FORMAT:", "POST-CONDITIONS:", DIFF_FENCE>>,
                    <<"coder_payload", "todo-001">>, 12,
                    "orchestrator", "coder", "delegation", "coder_payload"),
       ExchangeStep(coder_response_text("todo-001", "success"),
                    <<"TODO ID:", "STATUS:", "DIFF:", DIFF_FENCE, "TESTS:", "SUMMARY:",
                      "FOLLOW-UP:">>,
                    <<"coder_response", "todo-001">>, 25,
                    "coder", "orchestrator", "completion", "coder_response"),
       SnapshotStep(<< <<"todo-001", "verifying">> >>, Keep, 26, "verifying",
                    "Awaiting tester validation"),
       ExchangeStep(tester_payload_text("todo-001"),
                    <<"TODO ID:", "SCOPE:", "ARTIFACT REQUESTS:", "PASS CRITERIA:",
                      "FAILURE HANDOFF:", "VIEWPORTS:">>,
                    <<"tester_payload", "todo-001">>, 28,
                    "orchestrator", "tester", "delegation", "tester_payload"),
       ExchangeStep(tester_response_text("todo-001", "pass"),
                    <<"TODO ID:", "STATUS:", "VIEWPORTS:", "STEPS:", "ISSUES:",
                      "RECOMMENDATION:">>,
                    <<"tester_response", "todo-001">>, 40,
                    "tester", "orchestrator", "verification", "tester_response"),
       SnapshotStep(<< <<"todo-001", "complete">> >>, None, 41, "dispatch",
                    "Marked todo-001 complete"),
       SnapshotStep(<< <<"todo-002", "in_progress">> >>, "todo-002", 45, "dispatch",
                    "Dispatching todo-002"),
       ExchangeStep(coder_payload_text("todo-002"),
                    <<"TODO ID:", "OBJECTIVE:", "REQUIREMENTS:", "CONSTRAINTS:",
                      "OUTPUT FORMAT:", "POST-CONDITIONS:", DIFF_FENCE>>,
                    <<"coder_payload", "todo-002">>, 47,
                    "orchestrator", "coder", "delegation", "coder_payload"),
       ExchangeStep(coder_response_text("todo-002", "failed"),
                    <<"TODO ID:", "STATUS:", "DIFF:", DIFF_FENCE, "TESTS:", "SUMMARY:",
                      "FOLLOW-UP:">>,
                    <<"coder_response", "todo-002">>, 60,
                    "coder", "orchestrator", "completion", "coder_response"),
       SnapshotStep(<< <<"todo-002", "blocked">> >>, Keep, 61, "escalating",
                    "Coder reported failure"),
       ExchangeStep(stuck_payload_text("todo-002"),
                    <<"ISSUE:", "CONTEXT:", "DECISION OPTIONS:", "NEEDED BY:",
                      "Option A", "Option B", "Option C">>,
                    <<"stuck_payload", "todo-002">>, 63,
                    "orchestrator", "stuck", "escalation", "stuck_payload"),
       ExchangeStep(stuck_response_text,
                    <<"HUMAN DECISION:", "ACTION REQUIRED:", "FOLLOW-UP:">>,
                    <<"stuck_response", "todo-002">>, 75,
                    "stuck", "orchestrator", "resolution", "stuck_response"),
       SnapshotStep(<< <<"todo-002", "pending">> >>, None, 76, "planning",
                    "Updated todo-002 with human guidance") >>

\* todo_queue after the assignments of a step, in order.
RECURSIVE assign_all(_, _)
assign_all(queue, sets) ==
    IF sets = <<>> THEN queue
    ELSE assign_all(set_status(queue, Head(sets)[1], Head(sets)[2]), Tail(sets))

\* record_snapshot (lines 83-92).
record_snapshot(snaps, queue, active, offset, ph, note) ==
    Append(snaps, [timestamp |-> offset, phase |-> ph, active_todo |-> active,
                   todo_statuses |-> queue, note |-> <<note>>])

\* The state of build_simulation after one step of it; sim is [events,
\* validations, snapshots, todo_queue, active_todo].
simulation_step(sim, step) ==
    IF step.op = "snapshot"
    THEN LET queue == assign_all(sim.todo_queue, step.sets)
             active == IF step.active = Keep THEN sim.active_todo ELSE step.active
         IN  [sim EXCEPT !.todo_queue = queue, !.active_todo = active,
                         !.snapshots = record_snapshot(@, queue, active, step.offset,
                                                       step.phase, step.note)]
    ELSE [sim EXCEPT
            !.validations = Append(@, require_sections(step.text, step.sections, step.name)),
            !.events = Append(@,
                [ sequence |-> Len(sim.events) + 1, timestamp |-> step.offset,
                  sender |-> step.sender, recipient |-> step.recipient,
                  role |-> step.role, payload_type |-> step.payload_type,
                  content |-> step.text ])]

\* Lines 73-81.
simulation_init ==
    [events |-> <<>>, validations |-> <<>>, snapshots |-> <<>>,
     todo_queue |-> [k \in {"todo-001", "todo-002"} |-> "pending"],
     active_todo |-> None]

RECURSIVE simulation_from(_, _)
simulation_from(sim, steps) ==
    IF steps = <<>> THEN sim
    ELSE simulation_from(simulation_step(sim, Head(steps)), Tail(steps))

SimState ==
    [events |-> events, validations |-> validations, snapshots |-> snapshots,
     todo_queue |-> todo_queue, active_todo |-> active_todo]

SetSim(sim) ==
    /\ events' = sim.events
    /\ validations' = sim.validations
    /\ snapshots' = sim.snapshots
    /\ todo_queue' = sim.todo_queue
    /\ active_todo' = sim.active_todo

SimFrame ==
    /\ idx' = idx + 1
    /\ UNCHANGED <<pc, input, raw_events, sequence, output, phase, todo_status>>
    /\ UNCHANGED diffVars

\* A step that assigns to todo_queue and active_todo and records a snapshot.
SimRecordSnapshot ==
    /\ pc = "simulate" /\ idx <= Len(SimulationProgram)
    /\ SimulationProgram[idx].op = "snapshot"
    /\ SetSim(simulation_step(SimState, SimulationProgram[idx]))
    /\ SimFrame

\* A step that validates a text and appends its event.
SimExchange ==
    /\ pc = "simulate" /\ idx <= Len(SimulationProgram)
    /\ SimulationProgram[idx].op = "exchange"
    /\ SetSim(simulation_step(SimState, SimulationProgram[idx]))
    /\ SimFrame

\* Lines 493-499 and write_artifacts: the record is returned and written.
SimReturn ==
    /\ pc = "simulate" /\ idx > Len(SimulationProgram)
    /\ output' = workflow_record(events, snapshots, validations)
    /\ pc' = "simulated"
    /\ UNCHANGED <<input, raw_events, events, validations, sequence, idx, todo_queue>>
    /\ UNCHANGED reconVars /\ UNCHANGED diffVars

Simulate == SimRecordSnapshot \/ SimExchange \/ SimReturn

\* build_simulation() as a whole: the record it returns.
build_simulation ==
    LET sim == simulation_from(simulation_init, SimulationProgram)
    IN  workflow_record(sim.events, sim.snapshots, sim.validations)

InitSimulation ==
    /\ pc = "simulate" /\ idx = 1
    /\ input = <<>> /\ raw_events = <<>> /\ sequence = 0 /\ output = Unwritten
    /\ events = simulation_init.events
    /\ validations = simulation_init.validations
    /\ todo_queue = simulation_init.todo_queue
    /\ reconIdle /\ diffIdle

\* A run of either producer of a normalized trace.
Init == InitIngest \/ InitSimulation

Next == Ingest \/ Simulate

Spec == Init /\ [][Next]_vars

-----------------------------------------------------------------------------
(* The diff: compare_workflows.py.  A trace file is the JSON object         *)
(* json.load returns: a record whose domain is the keys present.  A         *)
(* finding is a record of what the message names.                           *)

\* The first line of the content that, stripped and lowered, starts with
\* "todo id:" (0 if none).
TodoIdLine(content) ==
    LET S == { i \in 1..Len(content) :
                 content[i].lead = "" /\ UpperKey(content[i].key) = "TODO ID:" }
    IN  IF S = {} THEN 0 ELSE Least(S)

\* extract_event_key; the event holds the four keys it reads.
extract_event_key(event) ==
    [ payload_type |-> event.payload_type,
      todo_id |-> IF TodoIdLine(event.content) = 0 THEN "unknown"
                  ELSE event.content[TodoIdLine(event.content)].val,
      sender |-> event.sender,
      recipient |-> event.recipient ]

\* extract_event_key raises KeyError on this event.
KeyErrorInEvent(event) ==
    ~ ({"content", "payload_type", "sender", "recipient"} \subseteq DOMAIN event)

\* The candidates without the test idx not in used_actual: a plausible slip.
Candidates_ignoring_used(base_key, actual_events, used) ==
    { i \in 1..Len(actual_events) :
        /\ extract_event_key(actual_events[i]).payload_type = base_key.payload_type
        /\ extract_event_key(actual_events[i]).todo_id = base_key.todo_id }

\* The actual events a baseline key can be paired with (lines 66-69).
Candidates(base_key, actual_events, used) ==
    { i \in 1..Len(actual_events) :
        /\ ~ used[i]
        /\ extract_event_key(actual_events[i]).payload_type = base_key.payload_type
        /\ extract_event_key(actual_events[i]).todo_id = base_key.todo_id }

\* The pairing taking the last candidate instead of the first: a plausible
\* slip.
pick_last(S) == CHOOSE i \in S : \A j \in S : j <= i

\* next(...) of lines 65-70: the first candidate.
pick_first(S) == Least(S)

\* The routing test looking at the sender only: a plausible slip.
routing_differs_sender_only(base_key, actual_key) ==
    actual_key.sender # base_key.sender

\* Line 73.
routing_differs(base_key, actual_key) ==
    actual_key.sender # base_key.sender \/ actual_key.recipient # base_key.recipient

\* One iteration of the loop of lines 63-80: [consumed, missing] after it.
match_one(acc, base_key, actual_events) ==
    LET S == Candidates(base_key, actual_events, acc.consumed)
        i == pick_first(S)
        actual_key == extract_event_key(actual_events[i])
    IN  IF S = {}
        THEN [acc EXCEPT !.missing = Append(@,
                 [kind |-> "missing_event", payload_type |-> base_key.payload_type,
                  todo_id |-> base_key.todo_id])]
        ELSE [ consumed |-> [acc.consumed EXCEPT ![i] = TRUE],
               missing |->
                 IF routing_differs(base_key, actual_key)
                 THEN Append(acc.missing,
                        [kind |-> "routing_mismatch",
                         payload_type |-> base_key.payload_type,
                         todo_id |-> base_key.todo_id,
                         baseline |-> <<base_key.sender, base_key.recipient>>,
                         actual |-> <<actual_key.sender, actual_key.recipient>>])
                 ELSE acc.missing ]

\* The loop of lines 82-85 with its test inverted (idx in used_actual): a
\* plausible slip.
extras_from_inverted(actual_events, used, i) ==
    LET places == SelectSeq([k \in 1..Len(actual_events) |-> k],
                            LAMBDA k : k >= i /\ used[k])
    IN  [ n \in 1..Len(places) |->
            [kind |-> "unexpected_event",
             payload_type |-> extract_event_key(actual_events[places[n]]).payload_type,
             todo_id |-> extract_event_key(actual_events[places[n]]).todo_id,
             sender |-> extract_event_key(actual_events[places[n]]).sender,
             recipient |-> extract_event_key(actual_events[places[n]]).recipient] ]

\* The loop of lines 82-85.
RECURSIVE extras_from(_, _, _)
extras_from(actual_events, used, i) ==
    IF i > Len(actual_events) THEN <<>>
    ELSE (IF used[i] THEN <<>>
          ELSE << [kind |-> "unexpected_event",
                   payload_type |-> extract_event_key(actual_events[i]).payload_type,
                   todo_id |-> extract_event_key(actual_events[i]).todo_id,
                   sender |-> extract_event_key(actual_events[i]).sender,
                   recipient |-> extract_event_key(actual_events[i]).recipient] >>)
         \o extras_from(actual_events, used, i + 1)

RECURSIVE match_from(_, _, _)
match_from(acc, base_events, actual_events) ==
    IF base_events = <<>> THEN acc
    ELSE match_from(match_one(acc, extract_event_key(Head(base_events)), actual_events),
                    Tail(base_events), actual_events)

\* compare_events on events that all hold their keys: [missing, extra].
compare_events(baseline_events, actual_events) ==
    LET acc == match_from([consumed |-> [i \in 1..Len(actual_events) |-> FALSE],
                           missing |-> <<>>], baseline_events, actual_events)
    IN  [missing |-> acc.missing,
         extra |-> extras_from(actual_events, acc.consumed, 1)]

\* entry.get("status") != "pass"
NotPass(entry) == ~ ("status" \in DOMAIN entry /\ entry.status = "pass")

\* collect_validation_failures raises KeyError.
KeyErrorInValidations(entries) ==
    \E i \in 1..Len(entries) :
        NotPass(entries[i]) /\ ~ ({"name", "missing_sections"} \subseteq DOMAIN entries[i])

\* The filter of line 94.
reported(entry) == NotPass(entry)

RECURSIVE collect_validation_failures(_)
collect_validation_failures(entries) ==
    IF entries = <<>> THEN <<>>
    ELSE (IF reported(Head(entries))
          THEN << [name |-> Head(entries).name,
                   missing_sections |-> Head(entries).missing_sections] >>
          ELSE <<>>)
         \o collect_validation_failures(Tail(entries))

\* compare_state_snapshots raises KeyError.
KeyErrorInSnapshots(base, act) ==
    \E i \in 1..Len(base) :
        \/ "phase" \notin DOMAIN base[i]
        \/ /\ i <= Len(act)
           /\ \/ "phase" \notin DOMAIN act[i]
              \/ "todo_statuses" \notin DOMAIN base[i]
              \/ "todo_statuses" \notin DOMAIN act[i]

\* The two mappings compared by their keys only: a plausible slip.
todo_statuses_differ_by_keys(base_todos, actual_todos) ==
    DOMAIN base_todos # DOMAIN actual_todos

\* Line 111.
todo_statuses_differ(base_todos, actual_todos) == base_todos # actual_todos

\* The body of the loop of lines 100-114 for index i.
snapshot_issues_at(base, act, i) ==
    IF i > Len(act)
    THEN << [kind |-> "missing_snapshot", index |-> i, phase |-> base[i].phase] >>
    ELSE (IF base[i].phase # act[i].phase
          THEN << [kind |-> "phase_mismatch", index |-> i,
                   baseline |-> base[i].phase, actual |-> act[i].phase] >>
          ELSE <<>>)
         \o
         (IF todo_statuses_differ(base[i].todo_statuses, act[i].todo_statuses)
          THEN << [kind |-> "todo_statuses_differ", index |-> i,
                   baseline |-> base[i].todo_statuses,
                   actual |-> act[i].todo_statuses] >>
          ELSE <<>>)

RECURSIVE snapshot_issues_from(_, _, _)
snapshot_issues_from(base, act, i) ==
    IF i > Len(base) THEN <<>>
    ELSE snapshot_issues_at(base, act, i) \o snapshot_issues_from(base, act, i + 1)

compare_state_snapshots(base, act) ==
    snapshot_issues_from(base, act, 1)
    \o (IF Len(act) > Len(base)
        THEN << [kind |-> "extra_snapshots", count |-> Len(act) - Len(base)] >>
        ELSE <<>>)

\* d.get(key, [])
GetList(d, key) == IF key \in DOMAIN d THEN d[key] ELSE <<>>

ingestIdle ==
    /\ input = <<>> /\ raw_events = <<>> /\ events = <<>> /\ validations = <<>>
    /\ sequence = 0 /\ output = Unwritten

DiffFrame ==
    /\ UNCHANGED ingestVars /\ UNCHANGED reconVars /\ UNCHANGED todo_queue
    /\ UNCHANGED <<baseline, actual>>

\* Line 129: the two event lists are read and compare_events derives the
\* keys (lines 55-61).
CompareEventsEnter ==
    /\ pc = "compare"
    /\ IF "events" \notin DOMAIN baseline \/ "events" \notin DOMAIN actual
       THEN /\ pc' = "key_error"
            /\ UNCHANGED <<began, consumed, idx>>
       ELSE /\ began' = began \cup {"events"}
            /\ IF \/ \E i \in 1..Len(baseline.events) : KeyErrorInEvent(baseline.events[i])
                  \/ \E i \in 1..Len(actual.events) : KeyErrorInEvent(actual.events[i])
               THEN pc' = "key_error" /\ UNCHANGED <<consumed, idx>>
               ELSE /\ pc' = "match"
                    /\ consumed' = [i \in 1..Len(actual.events) |-> FALSE]
                    /\ idx' = 1
    /\ UNCHANGED <<missing, extra, validation_failures, state_diffs>>
    /\ DiffFrame

\* One iteration of the loop of lines 63-80.
MatchBaseline ==
    /\ pc = "match" /\ idx <= Len(baseline.events)
    /\ LET acc == match_one([consumed |-> consumed, missing |-> missing],
                            extract_event_key(baseline.events[idx]), actual.events)
       IN  consumed' = acc.consumed /\ missing' = acc.missing
    /\ idx' = idx + 1
    /\ UNCHANGED <<pc, extra, validation_failures, state_diffs, began>>
    /\ DiffFrame

\* Lines 82-87.
CollectExtras ==
    /\ pc = "match" /\ idx > Len(baseline.events)
    /\ extra' = extras_from(actual.events, consumed, 1)
    /\ pc' = "validations"
    /\ UNCHANGED <<idx, consumed, missing, validation_failures, state_diffs, began>>
    /\ DiffFrame

\* Line 130 handing over the baseline's validations: a plausible slip.
CollectValidationFailures_of_baseline ==
    /\ pc = "validations"
    /\ began' = began \cup {"validations"}
    /\ IF KeyErrorInValidations(GetList(baseline, "validations"))
       THEN pc' = "key_error" /\ UNCHANGED validation_failures
       ELSE /\ validation_failures' =
                  collect_validation_failures(GetList(baseline, "validations"))
            /\ pc' = "snapshots"
    /\ UNCHANGED <<idx, consumed, missing, extra, state_diffs>>
    /\ DiffFrame

\* Line 130.
CollectValidationFailures ==
    /\ pc = "validations"
    /\ began' = began \cup {"validations"}
    /\ IF KeyErrorInValidations(GetList(actual, "validations"))
       THEN pc' = "key_error" /\ UNCHANGED validation_failures
       ELSE /\ validation_failures' =
                  collect_validation_failures(GetList(actual, "validations"))
            /\ pc' = "snapshots"
    /\ UNCHANGED <<idx, consumed, missing, extra, state_diffs>>
    /\ DiffFrame

\* Line 131.
CompareStateSnapshots ==
    /\ pc = "snapshots"
    /\ began' = began \cup {"snapshots"}
    /\ IF KeyErrorInSnapshots(GetList(baseline, "state_snapshots"),
                              GetList(actual, "state_snapshots"))
       THEN pc' = "key_error" /\ UNCHANGED state_diffs
       ELSE /\ state_diffs' = compare_state_snapshots(
                                  GetList(baseline, "state_snapshots"),
                                  GetList(actual, "state_snapshots"))
            /\ pc' = "report"
    /\ UNCHANGED <<idx, consumed, missing, extra, validation_failures>>
    /\ DiffFrame

\* Lines 133-152: the findings are printed.
Report ==
    /\ pc = "report"
    /\ pc' = IF missing = <<>> /\ extra = <<>> /\ validation_failures = <<>>
                /\ state_diffs = <<>>
             THEN "matches" ELSE "differs"
    /\ UNCHANGED <<idx, consumed, missing, extra, validation_failures, state_diffs,
                   began>>
    /\ DiffFrame

Diff ==
    \/ CompareEventsEnter \/ MatchBaseline \/ CollectExtras
    \/ CollectValidationFailures \/ CompareStateSnapshots \/ Report

\* The record the ingest pipeline writes for a raw log.
ingest_record(raws, now) ==
    workflow_record(extract_events(raws, now).results,
                    build_state_snapshots(extract_events(raws, now).results),
                    extract_events(raws, now).validations)

\* The raw events behind the trace files handed to the diff.
DiffRaws ==
    { RawOf(coder_payload_text("todo-001"), 12),
      [ message |-> [ content |-> << [kind |-> "text", text |-> coder_payload_text("todo-001")] >> ],
        participant |-> [t |-> "str", s |-> "assistant"],
        target |-> [t |-> "dict", name |-> "tester"],
        created |-> [t |-> "str", valid |-> TRUE, iso |-> 12] ],
      RawOf(DropLine(coder_payload_text("todo-001"), 5), 12),
      RawOf(coder_response_text("todo-002", "failed"), 60),
      RawOf(stuck_response_text, 75) }

\* The trace files the ingest pipeline writes (main writes none without an
\* event).
IngestTraces ==
    { ingest_record(raws, now) :
        <<raws, now>> \in { <<r, n>> \in SeqsUpTo(DiffRaws, MaxTrace) \X Clock :
                              extract_events(r, n).results # <<>> } }

\* A JSON object without one of its keys.
Without(d, key) == [k \in DOMAIN d \ {key} |-> d[k]]

\* A trace file whose first event, snapshot or validation lacks a key, or
\* that lacks its events.
Damaged(trace) ==
    { [trace EXCEPT !.events[1] = Without(@, "content")],
      [trace EXCEPT !.state_snapshots[1] = Without(@, "phase")],
      [trace EXCEPT !.state_snapshots[1] = Without(@, "todo_statuses")],
      [trace EXCEPT !.validations[1] = Without(@, "missing_sections")],
      Without(trace, "events") }

\* Structurally invalid trace files: the trace of a coder payload without
\* its OUTPUT FORMAT section (whose validation fails), damaged.
InvalidTraces ==
    UNION { Damaged(ingest_record(<< RawOf(DropLine(coder_payload_text("todo-001"), 5), 12) >>, now)) :
            now \in Clock }

IsWellFormedEvent(e) ==
    {"sequence", "timestamp", "sender", "recipient", "role", "payload_type", "content"}
        \subseteq DOMAIN e

IsWellFormedSnapshot(sn) ==
    {"timestamp", "phase", "active_todo", "todo_statuses", "note"} \subseteq DOMAIN sn

IsWellFormedValidation(v) ==
    {"name", "status", "missing_sections"} \subseteq DOMAIN v

\* The trace file has the shape of the normalized trace format.
IsWellFormed(trace) ==
    /\ {"events", "state_snapshots", "validations"} \subseteq DOMAIN trace
    /\ \A i \in 1..Len(trace.events) : IsWellFormedEvent(trace.events[i])
    /\ \A i \in 1..Len(trace.state_snapshots) : IsWellFormedSnapshot(trace.state_snapshots[i])
    /\ \A i \in 1..Len(trace.validations) : IsWellFormedValidation(trace.validations[i])

\* A raw log that holds exactly the events of the simulation: each event's
\* content, sender, recipient and instant, in order.
SimulationLog ==
    [ k \in 1..Len(build_simulation.events) |->
        [ content |-> << [kind |-> "str", text |-> build_simulation.events[k].content] >>,
          actor |-> [t |-> "str", s |-> build_simulation.events[k].sender],
          recipient |-> [t |-> "str", s |-> build_simulation.events[k].recipient],
          timestamp |-> [t |-> "num", v |-> build_simulation.events[k].timestamp] ] ]

\* The trace file the ingest pipeline writes for that log.
IngestedSimulation == UNION { {ingest_record(SimulationLog, now)} : now \in Clock }

\* The files handed to the diff: traces either producer writes, and
\* structurally invalid ones.
TraceFiles == IngestTraces \cup {build_simulation} \cup IngestedSimulation \cup InvalidTraces

\* load_workflow has returned both files (lines 126-127).
InitDiff ==
    /\ pc = "compare" /\ idx = 1
    /\ baseline \in TraceFiles
    /\ actual \in TraceFiles
    /\ consumed = <<>> /\ missing = <<>> /\ extra = <<>>
    /\ validation_failures = <<>> /\ state_diffs = <<>> /\ began = {}
    /\ todo_queue = <<>>
    /\ ingestIdle /\ reconIdle

SpecDiff == InitDiff /\ [][Diff]_vars

-----------------------------------------------------------------------------
(* Claims about build_state_snapshots, checked under SpecRecon.             *)

Last(seq) == seq[Len(seq)]

Phases(snaps) == [k \in 1..Len(snaps) |-> snaps[k].phase]

Names(event, payload_type, todo) ==
    event.payload_type = payload_type /\ TODO_ID_PATTERN(event.content) = todo

\* The stream coder_payload, coder_response (success), tester_payload,
\* tester_response (pass), all of todo-001.
IsHappyPath(evts) ==
    /\ Len(evts) = 4
    /\ Names(evts[1], "coder_payload", "todo-001")
    /\ Names(evts[2], "coder_response", "todo-001")
    /\ status_token(evts[2].content) = "success"
    /\ Names(evts[3], "tester_payload", "todo-001")
    /\ Names(evts[4], "tester_response", "todo-001")
    /\ status_token(evts[4].content) = "pass"

\* C1: for the happy-path stream of todo-001, build_state_snapshots returns
\* snapshots whose phases are exactly bootstrap, dispatch, verifying,
\* verifying, dispatch, and the last snapshot maps todo-001 to complete.
C1_HappyPathPhases ==
    (pc = "returned" /\ IsHappyPath(events)) =>
        /\ Phases(snapshots) =
              <<"bootstrap", "dispatch", "verifying", "verifying", "dispatch">>
        /\ "todo-001" \in DOMAIN Last(snapshots).todo_statuses
        /\ Last(snapshots).todo_statuses["todo-001"] = "complete"

C1_Witness ==
    pc = "returned" /\ IsHappyPath(events) /\ Len(snapshots) = 5

\* A coder_response of todo-002 whose status token is failed.
IsFailedCoderResponse(event) ==
    Names(event, "coder_response", "todo-002") /\ status_token(event.content) = "failed"

\* The step taken appended exactly one snapshot, of this phase, in which
\* todo-002 has this status.
AppendsSnapshot(ph, status) ==
    /\ Len(snapshots') = Len(snapshots) + 1
    /\ Last(snapshots').phase = ph
    /\ "todo-002" \in DOMAIN Last(snapshots').todo_statuses
    /\ Last(snapshots').todo_statuses["todo-002"] = status

\* C2: processing a failed coder_response of todo-002 appends a snapshot
\* with phase escalating and todo-002 blocked, and processing any
\* stuck_response that follows it in the stream appends a snapshot with
\* phase planning and todo-002 pending.
C2_FailurePath ==
    [][ (pc = "build" /\ idx <= Len(events) /\ idx' = idx + 1) =>
          /\ IsFailedCoderResponse(events[idx]) => AppendsSnapshot("escalating", "blocked")
          /\ ( /\ events[idx].payload_type = "stuck_response"
               /\ \E i \in 1..(idx - 1) : IsFailedCoderResponse(events[i]) )
             => AppendsSnapshot("planning", "pending") ]_vars

\* C5: the identifiers of a snapshot's todo_statuses are all identifiers of
\* every later snapshot's, and the snapshot a stuck_response appends holds
\* its item with status pending.
C5_KeysAccumulate ==
    /\ \A i, j \in 1..Len(snapshots) :
          i < j => DOMAIN snapshots[i].todo_statuses \subseteq DOMAIN snapshots[j].todo_statuses
    /\ \A k \in 1..Len(snapshots) :
          snapshots[k].note[1] = "Human guidance received" =>
              /\ snapshots[k].note[2] \in DOMAIN snapshots[k].todo_statuses
              /\ snapshots[k].todo_statuses[snapshots[k].note[2]] = "pending"

\* A stuck_response has reset an item an earlier snapshot already held with
\* another status.
C5_Witness ==
    \E k \in 2..Len(snapshots) :
        /\ snapshots[k].note[1] = "Human guidance received"
        /\ snapshots[k].note[2] \in DOMAIN snapshots[k - 1].todo_statuses
        /\ snapshots[k - 1].todo_statuses[snapshots[k].note[2]] = "blocked"

-----------------------------------------------------------------------------
(* Claims about the diff, checked under SpecDiff.                           *)

\* compare_events has returned.
EventsCompared ==
    \/ pc \in {"validations", "snapshots", "report", "matches", "differs"}
    \/ pc = "key_error" /\ "validations" \in began

\* The three comparisons have returned.
Compared == pc \in {"report", "matches", "differs"}

\* The places of the validations of a trace whose status is not pass.
FailingValidations(trace) ==
    { i \in 1..Len(trace.validations) : trace.validations[i].status # "pass" }

\* C3, as stated: comparing a trace with itself yields no finding in any of
\* the three categories (missing and extra events, validation failures,
\* snapshot differences).
C3_SelfDiffNoFindings ==
    (Compared /\ baseline = actual) =>
        /\ missing = <<>> /\ extra = <<>>
        /\ validation_failures = <<>>
        /\ state_diffs = <<>>

\* C3, amended: comparing a trace with itself yields no missing-event,
\* routing, extra-event or snapshot finding, and exactly one validation
\* finding for each validation of the trace whose status is not pass, in
\* order, with that validation's name and missing sections.
C3_SelfDiffFindings ==
    (Compared /\ baseline = actual) =>
        /\ missing = <<>> /\ extra = <<>>
        /\ state_diffs = <<>>
        /\ Len(validation_failures) = Cardinality(FailingValidations(actual))
        /\ \A k \in 1..Len(validation_failures) :
              \E i \in FailingValidations(actual) :
                  /\ Cardinality({ j \in FailingValidations(actual) : j <= i }) = k
                  /\ validation_failures[k].name = actual.validations[i].name
                  /\ validation_failures[k].missing_sections =
                         actual.validations[i].missing_sections

\* A trace holding a failing validation has been compared with itself.
C3_Witness ==
    /\ pc = "differs" /\ baseline = actual
    /\ validation_failures # <<>>
    /\ Len(actual.events) >= 2

\* Both lists hold one event, the two events share payload_type and todo_id
\* and differ in sender or recipient.
SingleEventsDifferInRouting ==
    /\ "events" \in DOMAIN baseline /\ "events" \in DOMAIN actual
    /\ Len(baseline.events) = 1 /\ Len(actual.events) = 1
    /\ ~ KeyErrorInEvent(baseline.events[1]) /\ ~ KeyErrorInEvent(actual.events[1])
    /\ baseline.events[1].payload_type = actual.events[1].payload_type
    /\ extract_event_key(baseline.events[1]).todo_id
           = extract_event_key(actual.events[1]).todo_id
    /\ \/ baseline.events[1].sender # actual.events[1].sender
       \/ baseline.events[1].recipient # actual.events[1].recipient

\* C4: for two lists of one event each that share payload_type and todo_id
\* and differ in sender or recipient, compare_events returns exactly one
\* finding in its first list, a routing mismatch naming the baseline
\* direction and the actual direction, no missing-event finding, and an
\* empty list of extra events.
C4_RoutingMismatch ==
    (EventsCompared /\ SingleEventsDifferInRouting) =>
        /\ Len(missing) = 1
        /\ missing[1].kind = "routing_mismatch"
        /\ missing[1].payload_type = baseline.events[1].payload_type
        /\ missing[1].baseline =
               <<baseline.events[1].sender, baseline.events[1].recipient>>
        /\ missing[1].actual =
               <<actual.events[1].sender, actual.events[1].recipient>>
        /\ extra = <<>>

C4_Witness ==
    /\ EventsCompared /\ SingleEventsDifferInRouting
    /\ baseline.events[1].sender = actual.events[1].sender

\* C9: when either trace file is structurally invalid none of the three
\* comparisons has begun, and when both are well formed the run raises no
\* error.
C9_InvalidFailsBeforeComparing ==
    /\ (~ IsWellFormed(baseline) \/ ~ IsWellFormed(actual)) => began = {}
    /\ (IsWellFormed(baseline) /\ IsWellFormed(actual)) => pc # "key_error"

-----------------------------------------------------------------------------
(* Claims about the producers of a trace, checked under Spec.               *)

\* extract_events has returned in a run of the ingest pipeline.
Extracted == pc \in {"exit_no_payloads", "bootstrap", "build", "returned", "done"}

\* Of coder_payload's required markers the text lacks CONSTRAINTS: and no
\* other.
LacksOnlyConstraints(text) ==
    /\ ~ Has(text, "CONSTRAINTS:")
    /\ \A k \in 1..Len(VALIDATION_RULES.coder_payload) :
          VALIDATION_RULES.coder_payload[k] # "CONSTRAINTS:"
              => Has(text, VALIDATION_RULES.coder_payload[k])

\* C6: once extract_events has returned, every raw event whose text is a
\* coder payload lacking only CONSTRAINTS: has a validation with status fail
\* and missing_sections exactly CONSTRAINTS:, and every validation's
\* missing_sections is the list of its kind's required markers absent from
\* the event's text, in the order of the table.
C6_ConstraintsReported ==
    Extracted =>
        /\ \A i \in 1..Len(raw_events) :
              LacksOnlyConstraints(flatten_text(raw_events[i])) =>
                  \E k \in 1..Len(validations) :
                      /\ validations[k].status = "fail"
                      /\ validations[k].missing_sections = <<"CONSTRAINTS:">>
        /\ Len(validations) = Len(events)
        /\ \A k \in 1..Len(validations) :
              validations[k].missing_sections =
                  SelectSeq(VALIDATION_RULES[events[k].payload_type],
                            LAMBDA m : ~ Has(events[k].content, m))

\* The fixed order of the payload kinds.
KindOrder ==
    <<"coder_payload", "tester_payload", "stuck_payload",
      "coder_response", "tester_response", "stuck_response">>

\* The text satisfies the predicate of the payload kind.
Satisfies(text, kind) ==
    CASE kind = "coder_payload" ->
           Has(text, "OBJECTIVE:") /\ Has(text, "REQUIREMENTS:") /\ Has(text, "CONSTRAINTS:")
      [] kind = "tester_payload" ->
           Has(text, "SCOPE:") /\ Has(text, "PASS CRITERIA:") /\ Has(text, "ARTIFACT REQUESTS:")
      [] kind = "stuck_payload" ->
           StartsWith(text, "ISSUE:") /\ Has(text, "DECISION OPTIONS:")
      [] kind = "coder_response" ->
           Has(text, "STATUS:") /\ Has(text, "DIFF:") /\ Has(text, "TESTS:")
      [] kind = "tester_response" ->
           Has(text, "STATUS:") /\ Has(text, "VIEWPORTS:") /\ Has(text, "RECOMMENDATION:")
      [] kind = "stuck_response" ->
           StartsWith(text, "HUMAN DECISION:") /\ Has(text, "ACTION REQUIRED:")

\* The places in KindOrder of the kinds whose predicates the text satisfies.
SatisfiedKinds(text) == { k \in 1..Len(KindOrder) : Satisfies(text, KindOrder[k]) }

\* The payload types of the events a raw log yields under first-match.
RECURSIVE EarliestKinds(_)
EarliestKinds(raws) ==
    IF raws = <<>> THEN <<>>
    ELSE (IF SatisfiedKinds(flatten_text(Head(raws))) = {} THEN <<>>
          ELSE << KindOrder[Least(SatisfiedKinds(flatten_text(Head(raws))))] >>)
         \o EarliestKinds(Tail(raws))

\* C7: every raw event's text is classified as the kind earliest in the
\* fixed order among the kinds whose predicates it satisfies, and a text
\* satisfying none is not classified (it yields no event).
C7_FirstMatch ==
    Extracted =>
        [k \in 1..Len(events) |-> events[k].payload_type] = EarliestKinds(raw_events)

\* An event whose text satisfies the predicates of two kinds or more.
C7_Witness ==
    /\ Extracted
    /\ \E k \in 1..Len(events) : Cardinality(SatisfiedKinds(events[k].content)) >= 2

\* C8: no trace with an empty events list is written; the ingest pipeline
\* goes on past the load only with a raw event and past the extraction only
\* with an event, and a run that ended in a fatal failure has reconstructed
\* no snapshot and written no output.
C8_NoEmptyTrace ==
    /\ "events" \in DOMAIN output => output.events # <<>>
    /\ pc \in {"extract", "exit_no_payloads"} => raw_events # <<>>
    /\ pc \in {"bootstrap", "build", "returned", "done"} => events # <<>>
    /\ pc \in {"exit_no_events", "exit_no_payloads"} =>
          snapshots = <<>> /\ "events" \notin DOMAIN output

\* A run whose raw events yield no event has ended in the fatal failure.
C8_Witness ==
    /\ pc = "exit_no_payloads" /\ raw_events # <<>> /\ events = <<>>
    /\ "events" \notin DOMAIN output

\* C10: every validation either producer holds has status pass or fail, and
\* has status fail exactly when its missing_sections is not empty.
C10_StatusIffMissing ==
    \A k \in 1..Len(validations) :
        /\ validations[k].status \in {"pass", "fail"}
        /\ validations[k].status = "fail" <=> validations[k].missing_sections # <<>>

\* A validation with a missing section.
C10_Witness ==
    \E k \in 1..Len(validations) :
        validations[k].status = "fail" /\ validations[k].missing_sections # <<>>

-----------------------------------------------------------------------------
(* Claims about extract_events, checked under SpecExtract.                  *)

\* C11: the events extract_events holds are numbered 1, 2, ... in the order
\* they were recorded, the counter equals their number (a dropped raw event
\* consumes none), and every event has non-empty content.
C11_SequenceNoGaps ==
    /\ sequence = Len(events)
    /\ \A k \in 1..Len(events) :
          events[k].sequence = k /\ events[k].content # <<>>
    /\ \A i, j \in 1..Len(events) :
          i < j => events[i].sequence < events[j].sequence

\* A raw event without text was dropped and the two after it recorded.
C11_Witness ==
    /\ pc # "extract" /\ Len(raw_events) = 3 /\ Len(events) = 2
    /\ flatten_text(raw_events[1]) = <<>>
    /\ classify_event(flatten_text(raw_events[2])) # Unclassified

-----------------------------------------------------------------------------
(* Further claims about build_state_snapshots, checked under SpecRecon.     *)

\* C12: in every snapshot, active_todo is null when the item it names has
\* status complete or has been reset to pending (the only way the
\* reconstructor gives an item the status pending is a stuck_response).
C12_ActiveOnlyWhileDispatched ==
    \A k \in 1..Len(snapshots) :
        ( /\ snapshots[k].active_todo # None
          /\ snapshots[k].active_todo \in DOMAIN snapshots[k].todo_statuses )
        => snapshots[k].todo_statuses[snapshots[k].active_todo]
               \notin {"complete", "pending"}

-----------------------------------------------------------------------------
(* Further claims about the producers of a trace, checked under Spec.       *)

\* C13: every event either producer records whose payload_type ends in
\* payload has role delegation, and every other event has a role among
\* completion, verification, escalation and resolution.
C13_RoleByPayloadType ==
    \A k \in 1..Len(events) :
        IF EndsWithPayload(events[k].payload_type)
        THEN events[k].role = "delegation"
        ELSE events[k].role \in {"completion", "verification", "escalation", "resolution"}

-----------------------------------------------------------------------------
(* Further claims about extract_events, checked under SpecExtract.          *)

\* The validation at place k belongs to the event at place k: it lists the
\* required markers of that event's kind absent from that event's text.
ValidatesEvent(k) ==
    validations[k].missing_sections =
        SelectSeq(VALIDATION_RULES[events[k].payload_type],
                  LAMBDA m : ~ Has(events[k].content, m))

\* C14, as stated: there is one validation per recorded event, in the order
\* of the events; its name is the payload_type joined with the item
\* identifier when the text carries one, and the payload kind alone when it
\* carries none.
C14_NameKindAlone ==
    /\ Len(validations) = Len(events)
    /\ \A k \in 1..Len(validations) :
          /\ ValidatesEvent(k)
          /\ validations[k].name =
                IF TODO_ID_PATTERN(events[k].content) # None
                THEN <<events[k].payload_type, TODO_ID_PATTERN(events[k].content)>>
                ELSE <<events[k].payload_type>>

\* C14, amended: there is one validation per recorded event, in the order
\* of the events; its name is the payload_type joined with the item
\* identifier when the text carries one, and the payload_type joined with
\* the payload_type again when it carries none.
C14_NameKindTwice ==
    /\ Len(validations) = Len(events)
    /\ \A k \in 1..Len(validations) :
          /\ ValidatesEvent(k)
          /\ validations[k].name =
                IF TODO_ID_PATTERN(events[k].content) # None
                THEN <<events[k].payload_type, TODO_ID_PATTERN(events[k].content)>>
                ELSE <<events[k].payload_type, events[k].payload_type>>

\* An event with an identifier and an event without one have both been
\* recorded and validated.
C14_Witness ==
    /\ pc # "extract" /\ Len(validations) >= 2
    /\ \E k \in 1..Len(events) : TODO_ID_PATTERN(events[k].content) = None
    /\ \E k \in 1..Len(events) : TODO_ID_PATTERN(events[k].content) # None

-----------------------------------------------------------------------------
(* Claims relating the diff's event key to the reconstructor's identifier,  *)
(* checked under SpecRecon.                                                 *)

\* C15: for the content of every event, the todo_id extract_event_key
\* derives is the identifier TODO_ID_PATTERN resolves when it resolves one,
\* and is "unknown" exactly when TODO_ID_PATTERN resolves none.
C15_TodoIdAgrees ==
    \A k \in 1..Len(events) :
        /\ TODO_ID_PATTERN(events[k].content) # None
              => extract_event_key(events[k]).todo_id = TODO_ID_PATTERN(events[k].content)
        /\ extract_event_key(events[k]).todo_id = "unknown"
              <=> TODO_ID_PATTERN(events[k].content) = None

-----------------------------------------------------------------------------
(* Further claims about compare_events, checked under SpecDiff.             *)

\* The event's (payload_type, todo_id).
PairingKey(event) == <<event.payload_type, extract_event_key(event).todo_id>>

\* The actual events not yet consumed whose key is the baseline event's.
Unconsumed(event) ==
    { i \in 1..Len(actual.events) :
        ~ consumed[i] /\ PairingKey(actual.events[i]) = PairingKey(event) }

\* The loop of compare_events processes the baseline event at place idx.
ProcessesBaselineEvent ==
    pc = "match" /\ idx <= Len(baseline.events) /\ pc' = "match" /\ idx' = idx + 1

\* C16: baseline events are processed in their order; each is paired with
\* the lowest-index unconsumed actual event of equal (payload_type,
\* todo_id), which becomes consumed (so no actual event is consumed twice);
\* a missing-event finding is added exactly when there is no such event, and
\* a routing-mismatch finding exactly when the paired event differs in
\* sender or recipient.
C16_GreedyPairing ==
    [][ ProcessesBaselineEvent =>
          LET b == baseline.events[idx]
              S == Unconsumed(b)
              i == CHOOSE m \in S : \A n \in S : m <= n
          IN  IF S = {}
              THEN /\ consumed' = consumed
                   /\ Len(missing') = Len(missing) + 1
                   /\ SubSeq(missing', 1, Len(missing)) = missing
                   /\ missing'[Len(missing')].kind = "missing_event"
                   /\ missing'[Len(missing')].payload_type = b.payload_type
              ELSE /\ consumed' = [consumed EXCEPT ![i] = TRUE]
                   /\ IF \/ actual.events[i].sender # b.sender
                         \/ actual.events[i].recipient # b.recipient
                      THEN /\ Len(missing') = Len(missing) + 1
                           /\ SubSeq(missing', 1, Len(missing)) = missing
                           /\ missing'[Len(missing')].kind = "routing_mismatch"
                           /\ missing'[Len(missing')].baseline = <<b.sender, b.recipient>>
                           /\ missing'[Len(missing')].actual =
                                  <<actual.events[i].sender, actual.events[i].recipient>>
                      ELSE missing' = missing ]_vars

\* Two actual events of one key have both been consumed, each by its own
\* baseline event.
C16_Witness ==
    /\ pc = "match"
    /\ \E i, j \in 1..Len(consumed) :
          /\ i < j /\ consumed[i] /\ consumed[j]
          /\ PairingKey(actual.events[i]) = PairingKey(actual.events[j])

\* The number of events of the list with this (payload_type, todo_id).
EventsOfKey(evts, key) ==
    Cardinality({ i \in 1..Len(evts) : PairingKey(evts[i]) = key })

\* The number of findings of this kind about this (payload_type, todo_id).
FindingsOfKey(findings, kind, key) ==
    Cardinality({ i \in 1..Len(findings) :
                    /\ findings[i].kind = kind
                    /\ <<findings[i].payload_type, findings[i].todo_id>> = key })

\* The keys of the events of either list.
KeysCompared ==
    { PairingKey(baseline.events[i]) : i \in 1..Len(baseline.events) }
    \cup { PairingKey(actual.events[i]) : i \in 1..Len(actual.events) }

\* max(0, n)
Positive(n) == IF n > 0 THEN n ELSE 0

\* C17: for every key with b baseline events and a actual events,
\* compare_events returns max(0, b - a) missing-event findings and
\* max(0, a - b) extra-event findings of that key, whatever the order of the
\* lists, and the extra-event findings are the unconsumed actual events, one
\* finding for each.
C17_CountsByKey ==
    EventsCompared =>
        /\ \A key \in KeysCompared :
              /\ FindingsOfKey(missing, "missing_event", key) =
                     Positive(EventsOfKey(baseline.events, key) - EventsOfKey(actual.events, key))
              /\ FindingsOfKey(extra, "unexpected_event", key) =
                     Positive(EventsOfKey(actual.events, key) - EventsOfKey(baseline.events, key))
        /\ Len(extra) = Cardinality({ i \in 1..Len(consumed) : ~ consumed[i] })
        /\ \A n \in 1..Len(extra) : extra[n].kind = "unexpected_event"

\* Two baseline events of one key met one actual event of that key that is
\* not the first of its list, and an actual event of another key.
C17_Witness ==
    /\ EventsCompared
    /\ Len(baseline.events) = 2 /\ Len(actual.events) = 2
    /\ PairingKey(baseline.events[1]) = PairingKey(baseline.events[2])
    /\ PairingKey(actual.events[2]) = PairingKey(baseline.events[1])
    /\ PairingKey(actual.events[1]) # PairingKey(baseline.events[1])
    /\ Len(extra) = 1

\* The event's (payload_type, todo_id, sender, recipient).
FullKey(event) ==
    <<event.payload_type, extract_event_key(event).todo_id, event.sender, event.recipient>>

\* The two lists hold the same full keys, each as many times.
SameFullKeys ==
    /\ Len(baseline.events) = Len(actual.events)
    /\ \A i \in 1..Len(baseline.events) :
          Cardinality({ j \in 1..Len(baseline.events) :
                          FullKey(baseline.events[j]) = FullKey(baseline.events[i]) })
          = Cardinality({ j \in 1..Len(actual.events) :
                          FullKey(actual.events[j]) = FullKey(baseline.events[i]) })

\* The two lists hold the same full keys in the same order.
SameOrder ==
    [i \in 1..Len(baseline.events) |-> FullKey(baseline.events[i])]
        = [i \in 1..Len(actual.events) |-> FullKey(actual.events[i])]

\* Two events of one (payload_type, todo_id) and different routing, listed
\* in one order by the baseline and in the other by the actual run.
SwappedPair ==
    /\ Len(baseline.events) = 2 /\ SameFullKeys
    /\ PairingKey(baseline.events[1]) = PairingKey(baseline.events[2])
    /\ FullKey(baseline.events[1]) # FullKey(baseline.events[2])
    /\ FullKey(actual.events[1]) = FullKey(baseline.events[2])

\* C18: for lists holding the same full keys, compare_events reports no
\* missing and no extra event; it reports no routing mismatch when the
\* order is the same, and for two events of one (payload_type, todo_id)
\* listed in swapped order it reports a routing mismatch for each of them,
\* so that findings arise from the order of the actual events alone.
C18_OrderMisattributesRouting ==
    (EventsCompared /\ SameFullKeys) =>
        /\ extra = <<>>
        /\ \A n \in 1..Len(missing) : missing[n].kind = "routing_mismatch"
        /\ SameOrder => missing = <<>>
        /\ SwappedPair =>
              /\ Len(missing) = 2
              /\ missing[1].baseline = missing[2].actual
              /\ missing[1].actual = missing[2].baseline

C18_Witness ==
    /\ EventsCompared /\ SwappedPair
    /\ Len(missing) = 2 /\ missing[1].kind = "routing_mismatch"

-----------------------------------------------------------------------------
(* Claims about the reconstructor's transition table, checked under         *)
(* SpecTable.                                                               *)

\* The row of the transition table for an event: the phase it sets and the
\* status it gives the event's item ("" for no status change).
TableRow(event) ==
    CASE event.payload_type = "coder_payload" ->
           [phase |-> "dispatch", status |-> "in_progress"]
      [] event.payload_type = "coder_response" ->
           IF status_token(event.content) = "success"
           THEN [phase |-> "verifying", status |-> "verifying"]
           ELSE [phase |-> "escalating", status |-> "blocked"]
      [] event.payload_type = "tester_payload" ->
           [phase |-> "verifying", status |-> ""]
      [] event.payload_type = "tester_response" ->
           IF status_token(event.content) = "pass"
           THEN [phase |-> "dispatch", status |-> "complete"]
           ELSE [phase |-> "escalating", status |-> "blocked"]
      [] event.payload_type = "stuck_payload" ->
           [phase |-> "escalating", status |-> ""]
      [] event.payload_type = "stuck_response" ->
           [phase |-> "planning", status |-> "pending"]

\* The loop of build_state_snapshots processes the event at place idx, which
\* carries an item identifier.
ProcessesIdentifiedEvent ==
    /\ pc = "build" /\ idx <= Len(events) /\ idx' = idx + 1
    /\ TODO_ID_PATTERN(events[idx].content) # None

\* C19: whatever the phase before, processing an event that carries an
\* identifier t sets the phase of its row of the table, gives t the status
\* of the row (or changes no status when the row has none), leaves the
\* statuses of all other identifiers as they were, makes t the active item
\* on a coder_payload, and appends one snapshot of the resulting state.
C19_TransitionTable ==
    [][ ProcessesIdentifiedEvent =>
          LET t == TODO_ID_PATTERN(events[idx].content)
              row == TableRow(events[idx])
          IN  /\ phase' = row.phase
              /\ IF row.status = ""
                 THEN todo_status' = todo_status
                 ELSE /\ DOMAIN todo_status' = DOMAIN todo_status \cup {t}
                      /\ todo_status'[t] = row.status
                      /\ \A u \in DOMAIN todo_status \ {t} : todo_status'[u] = todo_status[u]
              /\ active_todo' = IF events[idx].payload_type = "coder_payload"
                                THEN t ELSE active_todo
              /\ Len(snapshots') = Len(snapshots) + 1
              /\ SubSeq(snapshots', 1, Len(snapshots)) = snapshots
              /\ Last(snapshots').phase = phase'
              /\ Last(snapshots').todo_statuses = todo_status'
              /\ Last(snapshots').active_todo = active_todo' ]_vars

\* A coder reply without a status token was processed in phase planning and
\* escalated, blocking its item while another item kept its status.
C19_Witness ==
    /\ pc = "build" /\ idx = 4
    /\ events[3].payload_type = "coder_response"
    /\ status_token(events[3].content) = ""
    /\ snapshots[Len(snapshots) - 1].phase = "planning"
    /\ Last(snapshots).phase = "escalating"
    /\ Cardinality(DOMAIN Last(snapshots).todo_statuses) = 2

-----------------------------------------------------------------------------
(* Claims about events without an identifier, checked under SpecRecon.      *)

\* The loop of build_state_snapshots processes the event at place idx, which
\* carries no item identifier.
ProcessesUnidentifiedEvent ==
    /\ pc = "build" /\ idx <= Len(events) /\ idx' = idx + 1
    /\ TODO_ID_PATTERN(events[idx].content) = None

\* C20: an event whose content carries no identifier is among the recorded
\* events, with its payload_type and its content, and processing it leaves
\* phase, active_todo and todo_statuses as they were and appends no
\* snapshot.
C20_UnidentifiedEventFrame ==
    [][ ProcessesUnidentifiedEvent =>
          /\ events[idx].payload_type = classify_event(events[idx].content)[1]
          /\ events[idx].sequence = idx
          /\ events' = events
          /\ phase' = phase
          /\ active_todo' = active_todo
          /\ todo_status' = todo_status
          /\ snapshots' = snapshots ]_vars

\* An event without an identifier was processed after one with an
\* identifier had changed the state.
C20_Witness ==
    /\ pc = "build" /\ idx >= 3
    /\ TODO_ID_PATTERN(events[idx - 1].content) = None
    /\ TODO_ID_PATTERN(events[idx - 2].content) # None
    /\ Len(snapshots) = idx - 1
    /\ phase = "escalating" /\ todo_status # <<>>

-----------------------------------------------------------------------------
(* Claims about the snapshots build_state_snapshots returns, checked under  *)
(* SpecRecon.                                                               *)

\* The events that carry an item identifier, in their order.
IdentifiedEvents(evts) ==
    SelectSeq(evts, LAMBDA e : TODO_ID_PATTERN(e.content) # None)

\* C21: build_state_snapshots returns no snapshot for an empty list of
\* events; for any other list it returns one snapshot more than there are
\* events carrying an identifier: first the bootstrap snapshot (phase
\* bootstrap, no active item, no status, the first event's timestamp), then
\* one snapshot per identifier-carrying event, in order, with that event's
\* timestamp.
C21_SnapshotCount ==
    pc = "returned" =>
        IF events = <<>> THEN snapshots = <<>>
        ELSE /\ Len(snapshots) = 1 + Len(IdentifiedEvents(events))
             /\ snapshots[1].phase = "bootstrap"
             /\ snapshots[1].active_todo = None
             /\ snapshots[1].todo_statuses = <<>>
             /\ snapshots[1].timestamp = events[1].timestamp
             /\ \A k \in 1..Len(IdentifiedEvents(events)) :
                   snapshots[k + 1].timestamp = IdentifiedEvents(events)[k].timestamp

\* A stream whose second event carries no identifier, between two that do,
\* has been reconstructed.
C21_Witness ==
    /\ pc = "returned" /\ Len(events) = 3 /\ Len(snapshots) = 3
    /\ TODO_ID_PATTERN(events[2].content) = None
    /\ events[1].timestamp # events[3].timestamp

\* C22: processing an event whose identifier is not yet a key of the status
\* mapping appends a snapshot that holds the identifier, with status
\* pending when the event's row of the table changes no status (a
\* tester_payload or a stuck_payload).
C22_FirstReferencePending ==
    [][ ( /\ ProcessesIdentifiedEvent
          /\ TODO_ID_PATTERN(events[idx].content) \notin DOMAIN todo_status )
        => /\ Len(snapshots') = Len(snapshots) + 1
           /\ TODO_ID_PATTERN(events[idx].content) \in DOMAIN Last(snapshots').todo_statuses
           /\ TableRow(events[idx]).status = ""
                 => Last(snapshots').todo_statuses[TODO_ID_PATTERN(events[idx].content)]
                        = "pending" ]_vars

-----------------------------------------------------------------------------
(* Claims about the validation and snapshot findings of the diff, checked   *)
(* under SpecDiff.                                                          *)

\* collect_validation_failures has returned.
ValidationsCollected == pc \in {"snapshots", "report", "matches", "differs"}

\* The validations of the actual trace whose status is not pass, in order.
ActualNotPassing ==
    SelectSeq(GetList(actual, "validations"), LAMBDA v : v.status # "pass")

\* C23: whatever the baseline trace, the validation findings are, in order,
\* one finding for each validation of the actual trace whose status is not
\* pass, with its name and its missing sections, and none for a validation
\* that passes.
C23_ValidationsOfActualOnly ==
    ValidationsCollected =>
        /\ Len(validation_failures) = Len(ActualNotPassing)
        /\ \A k \in 1..Len(validation_failures) :
              /\ validation_failures[k].name = ActualNotPassing[k].name
              /\ validation_failures[k].missing_sections = ActualNotPassing[k].missing_sections

\* A finding was reported against another trace as baseline, all of whose
\* validations pass, the actual trace holding a passing validation too.
C23_Witness ==
    /\ ValidationsCollected /\ baseline # actual
    /\ validation_failures # <<>>
    /\ \A k \in 1..Len(baseline.validations) : baseline.validations[k].status = "pass"
    /\ \E k \in 1..Len(actual.validations) : actual.validations[k].status = "pass"

\* The snapshot lists compare_state_snapshots is handed.
BaselineSnapshots == GetList(baseline, "state_snapshots")

ActualSnapshots == GetList(actual, "state_snapshots")

\* The findings of this kind about the snapshot at place i.
SnapshotFindings(kind, i) ==
    { n \in 1..Len(state_diffs) : state_diffs[n].kind = kind /\ state_diffs[n].index = i }

\* The two mappings are not exactly equal.
MappingsDiffer(f, g) ==
    DOMAIN f # DOMAIN g \/ \E k \in DOMAIN f : f[k] # g[k]

\* C24: compare_state_snapshots compares by position: for each baseline
\* place beyond the actual list there is one missing-snapshot finding naming
\* the baseline phase and no other finding; for each place both lists have
\* there is one phase finding exactly when the phases differ and one
\* todo-status finding exactly when the mappings are not equal; and there is
\* one surplus finding, carrying the difference of the lengths, exactly when
\* the actual list is the longer.
C24_PositionalSnapshots ==
    Compared =>
        /\ \A i \in 1..Len(BaselineSnapshots) :
              IF i > Len(ActualSnapshots)
              THEN /\ Cardinality(SnapshotFindings("missing_snapshot", i)) = 1
                   /\ \A n \in SnapshotFindings("missing_snapshot", i) :
                         state_diffs[n].phase = BaselineSnapshots[i].phase
                   /\ SnapshotFindings("phase_mismatch", i) = {}
                   /\ SnapshotFindings("todo_statuses_differ", i) = {}
              ELSE /\ SnapshotFindings("missing_snapshot", i) = {}
                   /\ Cardinality(SnapshotFindings("phase_mismatch", i)) =
                         IF BaselineSnapshots[i].phase # ActualSnapshots[i].phase
                         THEN 1 ELSE 0
                   /\ Cardinality(SnapshotFindings("todo_statuses_differ", i)) =
                         IF MappingsDiffer(BaselineSnapshots[i].todo_statuses,
                                           ActualSnapshots[i].todo_statuses)
                         THEN 1 ELSE 0
        /\ \A n \in 1..Len(state_diffs) :
              IF state_diffs[n].kind = "extra_snapshots"
              THEN /\ n = Len(state_diffs)
                   /\ Len(ActualSnapshots) > Len(BaselineSnapshots)
                   /\ state_diffs[n].count = Len(ActualSnapshots) - Len(BaselineSnapshots)
              ELSE state_diffs[n].index \in 1..Len(BaselineSnapshots)
        /\ Len(ActualSnapshots) > Len(BaselineSnapshots)
              => state_diffs # <<>> /\ state_diffs[Len(state_diffs)].kind = "extra_snapshots"

\* The actual run has more snapshots than the baseline, and at one place
\* the two mappings hold the same identifiers with different statuses.
C24_Witness ==
    /\ Compared
    /\ Len(ActualSnapshots) > Len(BaselineSnapshots)
    /\ \E i \in 1..Len(BaselineSnapshots) :
          /\ DOMAIN BaselineSnapshots[i].todo_statuses = DOMAIN ActualSnapshots[i].todo_statuses
          /\ SnapshotFindings("todo_statuses_differ", i) # {}
          /\ SnapshotFindings("phase_mismatch", i) = {}

-----------------------------------------------------------------------------
(* Claims about the actors extract_events records, checked under            *)
(* SpecExtract.                                                             *)

\* The loop of extract_events records the raw event at place idx.
RecordsRawEvent ==
    /\ pc = "extract" /\ idx <= Len(raw_events) /\ idx' = idx + 1
    /\ Len(events') = Len(events) + 1

\* C25: the sender recorded for a raw event is the sender its metadata
\* gives when that is neither unknown nor one of the generic labels
\* assistant and system, and the classifier's sender otherwise; the
\* recipient recorded is the recipient its metadata gives whenever that is
\* not unknown, generic labels included, and the classifier's recipient
\* otherwise.
C25_ActorOverrides ==
    [][ RecordsRawEvent =>
          LET metadata == guess_actor(raw_events[idx])
              default == classify_event(flatten_text(raw_events[idx]))[2]
          IN  /\ Last(events').sender =
                     IF metadata[1] \in {"unknown", "assistant", "system"}
                     THEN default[1] ELSE metadata[1]
              /\ Last(events').recipient =
                     IF metadata[2] = "unknown" THEN default[2] ELSE metadata[2] ]_vars

\* An event was recorded with the classifier's sender in place of a generic
\* label and with a generic label as its recipient, and another with the
\* sender of its metadata.
C25_Witness ==
    /\ \E k \in 1..Len(events) :
          events[k].sender = "coder" /\ events[k].recipient = "assistant"
    /\ \E k \in 1..Len(events) : events[k].sender = "coder-7"

-----------------------------------------------------------------------------
(* Claims about the validations extract_events returns, checked under Spec. *)

\* The markers whose presence the classifiers test before they name a kind.
ClassifierMarkers ==
    [ coder_payload |-> {"OBJECTIVE:", "REQUIREMENTS:", "CONSTRAINTS:"},
      tester_payload |-> {"SCOPE:", "PASS CRITERIA:", "ARTIFACT REQUESTS:"},
      stuck_payload |-> {"ISSUE:", "DECISION OPTIONS:"},
      coder_response |-> {"STATUS:", "DIFF:", "TESTS:"},
      tester_response |-> {"STATUS:", "VIEWPORTS:", "RECOMMENDATION:"},
      stuck_response |-> {"HUMAN DECISION:", "ACTION REQUIRED:"} ]

\* The markers a validation reports as missing.
MissingOf(v) == { v.missing_sections[j] : j \in 1..Len(v.missing_sections) }

\* C28: no validation extract_events produces lists among its
\* missing_sections a marker the classifier tests for the payload kind of
\* the validated event.
C28_ClassifierMarkersNeverMissing ==
    /\ Len(validations) <= Len(events)
    /\ \A k \in 1..Len(validations) :
          /\ validations[k].name[1] = events[k].payload_type
          /\ MissingOf(validations[k]) \cap ClassifierMarkers[events[k].payload_type] = {}

\* extract_events has returned a failing validation of a coder payload, one
\* of whose absent markers is in the rule of its kind.
C28_Witness ==
    /\ Extracted
    /\ \E k \in 1..Len(validations) :
          /\ events[k].payload_type = "coder_payload"
          /\ validations[k].status = "fail"
          /\ MissingOf(validations[k]) # {}
          /\ MissingOf(validations[k]) \subseteq
                 { VALIDATION_RULES.coder_payload[j] : j \in 1..Len(VALIDATION_RULES.coder_payload) }

-----------------------------------------------------------------------------
(* Claims about the active item of a snapshot, checked under SpecRecon.     *)

\* Snapshot k was appended before any coder_payload carrying an identifier
\* was processed: snapshot 1 is the bootstrap snapshot and snapshot j + 1
\* belongs to the j-th identifier-carrying event.
BeforeFirstDispatch(k) ==
    \A j \in 1..(k - 1) :
        j <= Len(IdentifiedEvents(events))
            => IdentifiedEvents(events)[j].payload_type # "coder_payload"

\* C27: in every snapshot build_state_snapshots appends, active_todo is
\* null or a key of that snapshot's todo_statuses, and it is null in every
\* snapshot appended before the first coder_payload that carries an
\* identifier.
C27_ActiveTodoIsKey ==
    \A k \in 1..Len(snapshots) :
        /\ \/ snapshots[k].active_todo = None
           \/ snapshots[k].active_todo \in DOMAIN snapshots[k].todo_statuses
        /\ BeforeFirstDispatch(k) => snapshots[k].active_todo = None

\* A stream has been reconstructed in which an identifier-carrying event
\* came before the first coder_payload, and a later event named an item
\* other than the active one.
C27_Witness ==
    /\ pc = "returned"
    /\ \E k \in 2..Len(snapshots) :
          BeforeFirstDispatch(k) /\ snapshots[k].todo_statuses # <<>>
    /\ \E k \in 2..Len(snapshots) :
          /\ snapshots[k].active_todo # None
          /\ DOMAIN snapshots[k].todo_statuses # {snapshots[k].active_todo}

-----------------------------------------------------------------------------
(* Claims relating the two producers of a trace, checked under SpecDiff.    *)

\* C26: when the baseline is the simulation's trace and the actual run is
\* the ingest of a log holding exactly the simulation's events, the two
\* have the same number of snapshots, with the same phase and the same
\* todo_statuses at every place, and compare_state_snapshots reports no
\* finding.
C26_IngestReproducesSimulation ==
    ( /\ Compared
      /\ baseline = build_simulation
      /\ actual \in IngestedSimulation
      /\ [k \in 1..Len(actual.events) |->
             <<actual.events[k].content, actual.events[k].sender,
               actual.events[k].recipient>>]
         = [k \in 1..Len(baseline.events) |->
             <<baseline.events[k].content, baseline.events[k].sender,
               baseline.events[k].recipient>>] )
    => /\ Len(ActualSnapshots) = Len(BaselineSnapshots)
       /\ \A i \in 1..Len(BaselineSnapshots) :
             i <= Len(ActualSnapshots) =>
                 /\ ActualSnapshots[i].phase = BaselineSnapshots[i].phase
                 /\ ActualSnapshots[i].todo_statuses = BaselineSnapshots[i].todo_statuses
       /\ state_diffs = <<>>

====
